---- MODULE Spec2Model ----
(***************************************************************************)
(* A model of the space-weather timeline pipeline:                         *)
(*   - the three store tiers: Primary (SQLite, db_manager.py), Snapshot    *)
(*     (one JSON file per date, utils.py) and Remote (Supabase,            *)
(*     supabase_sync.py);                                                  *)
(*   - process_date and process_date_range of data_manager.py, one action  *)
(*     per collaborator call, in the order the code makes them;            *)
(*   - analyze_spaceweather_data / parse_llm_response of llm_processor.py. *)
(*   - save_data_to_db and load_data_from_db of db_manager.py once more,   *)
(*     statement by statement on the SQL tables, for what concurrent       *)
(*     connections see (SpecStatements).                                   *)
(* Dates are day numbers.  A Python dict that holds a date's data is a     *)
(* record [kind, date, url, error, events]; a missing "error" key is       *)
(* error = NoError and Python's None is NoRec.                             *)
(***************************************************************************)
EXTENDS Integers, Sequences, FiniteSets, TLC

\* ------------------------------------------------------------------ bounds

\* The largest max_retries a caller passes to process_date.
MaxRetriesArg == 2

\* The process_date calls of one behaviour.
MaxCalls == 1

\* The save_data_to_db calls of one behaviour at the level of statements.
MaxPuts == 2

\* The days argument of process_date_range.
Lookback == 1

\* Longest timeline_data drawn.
MaxList == 2

\* Forecast calls of a session.
MaxForecasts == 2

\* Phrases of a page.
MaxPhrases == 3

\* The largest days_to_show drawn beside the default.
MaxDays == 5

\* ---------------------------------------------------------------- constants

\* days_to_show default of calculate_date_range.
DEFAULT_DAYS_TO_SHOW == 14

\* max_retries of SupabaseClient._make_request.
REQUEST_MAX_RETRIES == 3

\* max_retries of analyze_spaceweather_data's own loop.
LLM_MAX_RETRIES == 3

\* max_retries default of process_date.
DEFAULT_MAX_RETRIES == 2

\* days default of process_date_range.
DEFAULT_DAYS == 30

\* extract_text_around_keywords: context_chars
CONTEXT_CHARS == 500

\* ------------------------------------------------------------------- data

\* "today" as a day number, and the dates the stores can hold: a caller of
\* process_date passes no later date, and process_date_range none before
\* today - days.
Today == 3
Dates == (Today - Lookback)..Today
FirstDate == Today - Lookback

Categories == <<"cme", "sunspot", "flares", "coronal_holes">>
CategorySet == {Categories[i] : i \in 1..Len(Categories)}

NoRec == [kind |-> "none"]
NoError == "none"
NoDate == 0

\* The source reference of a date (archive URL built from the date).
Url(d) == <<"archive", d>>

\* One event as the five columns the code reads and writes.
Event(tone, detail) ==
  [tone |-> tone, date |-> NoDate, predicted_arrival |-> NoDate,
   detail |-> detail, image_url |-> "none"]

EvN == Event("Normal", "a")
EvS == Event("Significant", "b")

NoEvents == [c \in CategorySet |-> <<>>]

\* events.get(cat, []) summed over the four categories.
RECURSIVE SumLen(_, _)
SumLen(events, i) ==
  IF i = 0 THEN 0 ELSE Len(events[Categories[i]]) + SumLen(events, i - 1)

total_events(events) == SumLen(events, Len(Categories))

Rec(date, url, error, events) ==
  [kind |-> "rec", date |-> date, url |-> url, error |-> error, events |-> events]

\* A test that no record passes.
NeverUsable(data) == FALSE

\* total_events > 0 and "error" not in data
HasUsableEvents(data) == total_events(data.events) > 0 /\ data.error = NoError

\* is_significant = 1 if tone and tone.lower() == "significant" else 0
is_significant(ev) == ev.tone \in {"Significant", "significant"}

\* ORDER BY category, is_significant DESC, within one category (rows of equal
\* key stay in insertion order).
SignificantFirst(s) ==
  SelectSeq(s, LAMBDA e : is_significant(e)) \o SelectSeq(s, LAMBDA e : ~is_significant(e))

\* ------------------------------------------------------------ Primary tier

\* A row that is written already marked as pushed.
RowSynced(data) ==
  [kind |-> "rec", date |-> data.date, url |-> data.url, error |-> data.error,
   synced |-> TRUE, events |-> [c \in CategorySet |-> data.events[c]]]

\* The dates and events tables as one row per date: the dates row (url, error,
\* synced) with the events rows of its date_id, per category, in insertion order.
Row(data) ==
  [kind |-> "rec", date |-> data.date, url |-> data.url, error |-> data.error,
   synced |-> FALSE, events |-> [c \in CategorySet |-> data.events[c]]]

\* save_data_to_db: one transaction that updates or inserts the dates row with
\* synced = 0, deletes the date's events and inserts the new ones.
save_data_to_db(db, data) ==
  IF data = NoRec THEN db ELSE [db EXCEPT ![data.date] = Row(data)]

\* load_data_from_db: the date's row as a dict, "error" only when set, events
\* grouped by category, significant ones first.
load_data_from_db(db, d) ==
  IF db[d] = NoRec THEN NoRec
  ELSE Rec(db[d].date, db[d].url, db[d].error,
           [c \in CategorySet |-> SignificantFirst(db[d].events[c])])

\* get_unsynced_data: the dates whose row has synced = 0.
get_unsynced_data(db) == {d \in DOMAIN db : db[d] # NoRec /\ ~db[d].synced}

\* ----------------------------------------------------------- Snapshot tier

\* save_data(data, date_str): the dict as it is, in the file of date_str.
save_data(files, data, d) == [files EXCEPT ![d] = data]

\* load_data(date_str): the file's content, or None.
load_data(files, d) == files[d]

\* ------------------------------------------------------------- Remote tier

\* What the requests of one Remote call do: TRUE is a reply, FALSE a timeout or
\* an error status after the retries of _make_request (which then returns None).
RequestsOk == [get |-> TRUE, events |-> TRUE, put |-> TRUE, del |-> TRUE,
               post |-> TRUE, ins |-> TRUE]
RequestsFail == [get |-> FALSE, events |-> FALSE, put |-> FALSE, del |-> FALSE,
                 post |-> FALSE, ins |-> FALSE]
EventsRequestFails == [RequestsOk EXCEPT !.events = FALSE]
RequestOutcomes == {RequestsOk, RequestsFail, EventsRequestFails}

\* A function's outcome: its return value, or an exception that leaves it.
Returns(v) == [exc |-> FALSE, val |-> v]
Raises == [exc |-> TRUE, val |-> NoRec]

\* The body of SupabaseClient.get_date: the dates row, then its events ordered
\* significant first; iterating over a failed events request raises.
get_date_body(rem, d, out) ==
  IF ~out.get \/ rem[d] = NoRec THEN Returns(NoRec)
  ELSE IF ~out.events THEN Raises
  ELSE Returns(Rec(rem[d].date, rem[d].url, rem[d].error,
                   [c \in CategorySet |-> SignificantFirst(rem[d].events[c])]))

\* SupabaseClient.get_date: the body inside try/except, any exception is None.
get_date(rem, d, out) ==
  LET r == get_date_body(rem, d, out) IN IF r.exc THEN Returns(NoRec) ELSE r

\* SupabaseClient.sync_date: look the date up; update it and delete its events,
\* or insert it (False when that fails); then insert the events. A failed
\* update, delete or event insert is not looked at.
sync_date(rem, data, out) ==
  LET d == data.date
      found == out.get /\ rem[d] # NoRec
      updated == [rem[d] EXCEPT !.url = IF out.put THEN data.url ELSE @,
                                !.error = IF out.put THEN data.error ELSE @,
                                !.events = IF out.del THEN NoEvents ELSE @]
      inserted == [kind |-> "rec", date |-> d, url |-> data.url,
                   error |-> data.error, events |-> NoEvents]
      withEvents(r) ==
        IF out.ins
        THEN [r EXCEPT !.events = [c \in CategorySet |-> r.events[c] \o data.events[c]]]
        ELSE r
  IN IF found THEN [ok |-> TRUE, rem |-> [rem EXCEPT ![d] = withEvents(updated)]]
     ELSE IF out.post /\ rem[d] = NoRec
          THEN [ok |-> TRUE, rem |-> [rem EXCEPT ![d] = withEvents(inserted)]]
          ELSE [ok |-> FALSE, rem |-> rem]

\* A lookup that returns the Remote record without saving it to Primary.
check_supabase_nosave(db, rem, client, d, out) ==
  LET got == get_date(rem, d, out)
      data == got.val
  IN IF ~client \/ got.exc \/ data = NoRec \/ ~HasUsableEvents(data)
     THEN [exc |-> FALSE, val |-> NoRec, db |-> db]
     ELSE [exc |-> FALSE, val |-> data, db |-> db]

\* A lookup that takes whatever Remote holds, with or without events.
check_supabase_unfiltered(db, rem, client, d, out) ==
  LET got == get_date(rem, d, out)
      data == got.val
  IN IF ~client \/ got.exc \/ data = NoRec
     THEN [exc |-> FALSE, val |-> NoRec, db |-> db]
     ELSE [exc |-> FALSE, val |-> data, db |-> save_data_to_db(db, data)]

\* check_supabase_for_data: None without a client; the Remote record, saved to
\* Primary, when it has events and no error; None otherwise. Its try/except
\* turns any exception into None.
check_supabase_for_data(db, rem, client, d, out) ==
  LET got == get_date(rem, d, out)
      data == got.val
  IN IF ~client \/ got.exc \/ data = NoRec \/ ~HasUsableEvents(data)
     THEN [exc |-> FALSE, val |-> NoRec, db |-> db]
     ELSE [exc |-> FALSE, val |-> data, db |-> save_data_to_db(db, data)]

\* ------------------------------------------------ Raw source and sections

NoDataText == "No data available"

\* The body of scrape_spaceweather: the page of the date, None when the page
\* has no main content; a failed request raises.
scrape_body(d, page) ==
  IF page = "request_error" THEN Raises
  ELSE IF page = "no_content" THEN Returns(NoRec)
  ELSE Returns([kind |-> "rec", date |-> d, url |-> Url(d), text |-> "report"])

\* A scrape without the try/except.
scrape_unguarded(d, page) == scrape_body(d, page)

\* scrape_spaceweather: the body inside try/except, any exception is None.
scrape_spaceweather(d, page) ==
  LET r == scrape_body(d, page) IN IF r.exc THEN Returns(NoRec) ELSE r

PageOutcomes == {"page", "no_content", "request_error"}

\* The minimal structure process_date builds when nothing was scraped.
MinimalScraped(d) == [kind |-> "rec", date |-> d, url |-> Url(d), text |-> NoDataText]

\* extract_spaceweather_sections: full text, date and url of the scraped data.
extract_spaceweather_sections(scraped) ==
  [date |-> scraped.date, url |-> scraped.url, full_text |-> scraped.text]

\* ------------------------------------------------- Extraction Normalizer

ParseError == "parse_error"
AnalysisFailedUnknown == "Error analyzing data after 3 attempts: Unknown error"
AnalysisFailedError == "Error analyzing data after 3 attempts: error"

\* What one call_llm returns:
\*   none               None (API error, timeout, empty content, skipped call)
\*   unparseable        text with braces in which no stage finds JSON
\*   events_not_object  a JSON object whose "events" is not an object
\*   null_category      a JSON object with a category that is null
\*   json               a JSON object with the date it states (NoDate: no "date"
\*                      key) and its events
ReplyNone == [kind |-> "none", date |-> NoDate, events |-> NoEvents]
Reply(kind, date, events) == [kind |-> kind, date |-> date, events |-> events]

\* parse_llm_response on a reply that is not None. malformed: a category of
\* the result is not a list.
parse_llm_response(reply, sections) ==
  LET parsed(date, events, malformed) ==
        [kind |-> "rec", date |-> IF date = NoDate THEN sections.date ELSE date,
         url |-> sections.url, error |-> NoError, events |-> events,
         malformed |-> malformed]
  IN CASE reply.kind = "json" -> parsed(reply.date, reply.events, FALSE)
       [] reply.kind = "null_category" -> parsed(reply.date, reply.events, TRUE)
       [] reply.kind = "unparseable" -> parsed(NoDate, NoEvents, FALSE)
       [] OTHER -> [kind |-> "rec", date |-> sections.date, url |-> sections.url,
                    error |-> ParseError, events |-> NoEvents, malformed |-> FALSE]

\* The dict without the model's bookkeeping field.
AsData(p) == Rec(p.date, p.url, p.error, p.events)

\* The structure analyze_spaceweather_data returns when its loop ends.
AnalysisFailed(sections, last_error) ==
  Rec(sections.date, sections.url,
      IF last_error THEN AnalysisFailedError ELSE AnalysisFailedUnknown, NoEvents)

\* A call_llm that sends every prompt.
NeverSkips(sections) == FALSE

\* call_llm skips the request when the prompt holds the no-data text.
SkipsRequest(sections) == sections.full_text = NoDataText

\* One iteration of analyze_spaceweather_data's loop, given what call_llm
\* returned: done with a value, or the next retry_count and last_error.
analyze_iteration(reply, sections, rc, last_error) ==
  LET p == parse_llm_response(reply, sections)
      total == total_events(p.events)
      again(n, e) ==
        IF n < LLM_MAX_RETRIES
        THEN [done |-> FALSE, val |-> NoRec, rc |-> n, last_error |-> e]
        ELSE [done |-> TRUE, val |-> AnalysisFailed(sections, e), rc |-> n, last_error |-> e]
  IN IF reply.kind = "none" THEN again(rc + 1, last_error)
     ELSE IF p.malformed THEN again(rc + 1, TRUE)
     ELSE IF total > 0 \/ rc = LLM_MAX_RETRIES - 1
          THEN [done |-> TRUE, val |-> AsData(p), rc |-> rc, last_error |-> last_error]
          ELSE again(rc + 1, last_error)

\* The test of process_date's loop: valid data with at least one event.
AnalysisSucceeded(data) == data # NoRec /\ HasUsableEvents(data)

\* A loop that runs one more time.
LoopEndsLate(n, k) == n > k + 1

\* The end of process_date's loop: retries, already incremented, is past
\* max_retries.
LoopEnds(n, k) == n > k

\* After the loop: the basic structure when the analysis carries an error,
\* the analysis itself otherwise.
FinalData(data, d, url) ==
  IF data = NoRec \/ data.error # NoError
  THEN Rec(d, url, IF data = NoRec THEN "LLM analysis failed" ELSE data.error, NoEvents)
  ELSE data

\* -------------------------------------------- Primary as SQL statements

\* The dates table as a set of rows, the events table as its rows in rowid
\* order, and the next AUTOINCREMENT id of dates.
EmptyTables == [dates |-> {}, events |-> <<>>, next_id |-> 1]

\* SELECT ... FROM dates WHERE date = ?, fetchone.
SelectDate(t, d) ==
  IF \E r \in t.dates : r.date = d THEN CHOOSE r \in t.dates : r.date = d ELSE NoRec

\* date TEXT UNIQUE NOT NULL: an INSERT of d is accepted when no row has d.
Unique(t, d) == \A r \in t.dates : r.date # d

\* INSERT INTO dates (date, url, error): synced takes its default 0.
InsertDate(t, d, url, error) ==
  [t EXCEPT !.dates = @ \cup {[kind |-> "row", id |-> t.next_id, date |-> d, url |-> url,
                               error |-> error, synced |-> FALSE]},
            !.next_id = @ + 1]

\* UPDATE dates SET url = ?, error = ?, synced = 0 WHERE id = ?
UpdateDate(t, id, url, error) ==
  [t EXCEPT !.dates = {IF r.id = id
                       THEN [r EXCEPT !.url = url, !.error = error, !.synced = FALSE]
                       ELSE r : r \in @}]

\* A DELETE that removes nothing.
KeepEvents(t, id) == t

\* DELETE FROM events WHERE date_id = ?
DeleteEvents(t, id) == [t EXCEPT !.events = SelectSeq(@, LAMBDA e : e.date_id # id)]

\* INSERT INTO events (date_id, category, tone, ..., is_significant)
InsertEvent(t, id, c, ev) ==
  [t EXCEPT !.events = Append(@, [date_id |-> id, category |-> c, ev |-> ev,
                                  is_significant |-> is_significant(ev)])]

\* SELECT * FROM events WHERE date_id = ? ORDER BY category, is_significant
\* DESC, grouped by category as load_data_from_db does.
SelectEvents(t, id) ==
  [c \in CategorySet |->
     LET rows == SelectSeq(t.events, LAMBDA e : e.date_id = id /\ e.category = c)
         sorted == SelectSeq(rows, LAMBDA e : e.is_significant)
                   \o SelectSeq(rows, LAMBDA e : ~e.is_significant)
     IN [i \in 1..Len(sorted) |-> sorted[i].ev]]

\* The events of a record in the order save_data_to_db inserts them: category
\* by category, each list front to back.
RECURSIVE EventRows(_, _)
EventRows(events, i) ==
  IF i > Len(Categories) THEN <<>>
  ELSE [j \in 1..Len(events[Categories[i]]) |->
          [category |-> Categories[i], ev |-> events[Categories[i]][j]]]
       \o EventRows(events, i + 1)

\* With autocommit every statement is in the file as soon as it has run.
Autocommit(file, work) == work

\* What the database file holds after a statement of an open transaction:
\* the statement is in the connection's working copy, the file is as it was
\* until conn.commit().
AfterStatement(file, work) == file

\* A whole save_data_to_db call with no other connection at work.
RECURSIVE InsertEvents(_, _, _)
InsertEvents(t, id, rows) ==
  IF rows = <<>> THEN t
  ELSE InsertEvents(InsertEvent(t, id, Head(rows).category, Head(rows).ev), id, Tail(rows))

SaveAlone(t, data) ==
  LET row == SelectDate(t, data.date)
  IN IF row # NoRec
     THEN InsertEvents(DeleteEvents(UpdateDate(t, row.id, data.url, data.error), row.id),
                       row.id, EventRows(data.events, 1))
     ELSE InsertEvents(InsertDate(t, data.date, data.url, data.error), t.next_id,
                       EventRows(data.events, 1))

\* ------------------------------------------------------------------ state

VARIABLES
  primary,          \* Primary: date -> row of the dates table with its events
  snapshot,         \* Snapshot: date -> content of the date's JSON file
  remote,           \* Remote: date -> row of the Supabase dates table with its events
  supabase_client,  \* whether get_supabase_client() returns a client
  pc,               \* where the running process_date call is
  date_str,         \* its arguments
  force_refresh,
  max_retries,
  existing_data,    \* its local variables
  sections,
  retries,
  retry_count,      \* retry_count and last_error of the running analysis
  last_error,
  analyzed_data,
  result,           \* what the call returns
  raised,           \* an exception left the call
  local_data,       \* history: what the Primary/Snapshot lookup found
  remote_data,      \* history: the record get_date read from Remote
  remote_lookups,   \* history: get_date calls of the call
  normalizer_calls, \* history: analyze_spaceweather_data invocations of the call
  llm_requests,     \* history: completion requests of the call
  push,             \* history: how the push to Remote ended
  path,             \* history: the branch the call returned from
  calls,            \* history: the process_date calls made so far
  range_pc,         \* where the running process_date_range call is
  range_force,      \* its force_refresh
  date_range,       \* its date_range
  results,          \* its results
  paths,            \* history: the branch each of its results came from
  tables,           \* Primary as SQL tables: the committed dates and events rows
  txn,              \* the running save_data_to_db calls, each with its open transaction
  lock,             \* the connection that holds the write lock of the database file
  reader,           \* the running load_data_from_db call
  committed,        \* history: the records whose save was committed, in commit order
  puts,             \* history: the save_data_to_db calls made so far
  sync_pc,          \* where the running sync_with_supabase call is
  unsynced_data,    \* its unsynced_data still to push
  success_count,    \* its success_count
  total_count,      \* its total_count
  sync_before,      \* history: Primary when the call read the unsynced records
  succeeded,        \* history: the dates whose sync_date returned True
  range_args,       \* the arguments of a process_date_range call and its clock
  timeline_data,    \* the list of records the timeline is drawn from
  timeline_range,   \* the date_range of the timeline
  forecast_data,    \* what the last generate_forecast_data call returned
  forecast_log,     \* history: data_list, date_range and result of each such call
  response,         \* the text parse_llm_response is given
  response_origin,  \* history: the bundle the text was written from, and how
  parsed,           \* what parse_llm_response returned
  page_text,        \* the text of a scraped page
  keyword_sections, \* the snippet lists extract_spaceweather_sections made of it
  local_settings,   \* Primary's settings table: key -> value
  remote_settings,  \* Remote's settings table: key -> value
  got_setting,      \* history: the last get_setting call and what it returned
  request,          \* the running _make_request call and what the calls before it returned
  remote_reachable  \* TRUE once every Remote request is answered from then on

vars == <<primary, snapshot, remote, supabase_client, pc, date_str, force_refresh,
          max_retries, existing_data, sections, retries, retry_count, last_error,
          analyzed_data, result, raised, local_data, remote_data, remote_lookups,
          normalizer_calls, llm_requests, push, path, calls, range_pc, range_force,
          date_range, results, paths, tables, txn, lock, reader, committed, puts,
          sync_pc, unsynced_data, success_count, total_count, sync_before, succeeded,
          range_args, timeline_data, timeline_range, forecast_data, forecast_log,
          response, response_origin, parsed, page_text, keyword_sections,
          local_settings, remote_settings, got_setting, remote_reachable, request>>

stores == <<primary, snapshot, remote, supabase_client>>
args == <<date_str, force_refresh, max_retries>>
analysis == <<sections, retries, retry_count, last_error, analyzed_data>>
range == <<range_pc, range_force, date_range, results, paths>>
statements == <<tables, txn, lock, reader, committed, puts>>
syncing == <<sync_pc, unsynced_data, success_count, total_count, sync_before, succeeded,
             remote_reachable, request>>
forecasting == <<timeline_data, timeline_range, forecast_data, forecast_log>>
parsing == <<response, response_origin, parsed>>
extracting == <<page_text, keyword_sections>>
settings_store == <<local_settings, remote_settings, got_setting>>
functions == <<range_args, forecasting, parsing, extracting, settings_store>>
extras == <<syncing, functions>>
history == <<local_data, remote_data, remote_lookups, normalizer_calls, llm_requests, push>>

NoSections == [date |-> NoDate, url |-> Url(NoDate), full_text |-> ""]

\* ----------------------------------------------------------- sample inputs

EventsA == [NoEvents EXCEPT !["cme"] = <<EvN, EvS>>]
EventsB == [NoEvents EXCEPT !["flares"] = <<EvS>>]

\* The files an earlier version left in the data directory.
LegacyFiles(d) == {NoRec, Rec(d, Url(d), NoError, EventsA)}

\* What other installations have pushed to the shared replica.
RemoteRows(d) ==
  {NoRec,
   [kind |-> "rec", date |-> d, url |-> Url(d), error |-> NoError, events |-> EventsB],
   [kind |-> "rec", date |-> d, url |-> Url(d), error |-> AnalysisFailedUnknown,
    events |-> NoEvents]}

\* What the model replies to the request for a date.
Replies ==
  {ReplyNone, Reply("unparseable", NoDate, NoEvents),
   Reply("events_not_object", NoDate, NoEvents), Reply("null_category", NoDate, NoEvents)}
  \cup {Reply("json", dd, ev) : dd \in {NoDate} \cup Dates, ev \in {NoEvents, EventsA}}

\* ------------------------------------------------------------------- init

\* No process_date or process_date_range call is running.
CallsIdle ==
  /\ pc = "idle"
  /\ date_str = NoDate
  /\ force_refresh = FALSE
  /\ max_retries = 0
  /\ existing_data = NoRec
  /\ sections = NoSections
  /\ retries = 0
  /\ retry_count = 0
  /\ last_error = FALSE
  /\ analyzed_data = NoRec
  /\ result = NoRec
  /\ raised = FALSE
  /\ local_data = NoRec
  /\ remote_data = NoRec
  /\ remote_lookups = 0
  /\ normalizer_calls = 0
  /\ llm_requests = 0
  /\ push = "none"
  /\ path = "none"
  /\ calls = 0
  /\ range_pc = "none"
  /\ range_force = FALSE
  /\ date_range = <<>>
  /\ results = <<>>
  /\ paths = <<>>

NoLock == "none"
Connections == {"w1", "w2"}
NoTxn == [pc |-> "idle", data |-> NoRec, date_id |-> 0, work |-> EmptyTables, i |-> 1]
NoRead == [pc |-> "idle", d |-> NoDate, date_record |-> NoRec, result |-> NoRec,
           v1 |-> 0, v2 |-> 0, open |-> FALSE]

\* No statement-level call is running on a database that init_db has just created.
StatementsIdle ==
  /\ tables = EmptyTables
  /\ txn = [w \in Connections |-> NoTxn]
  /\ lock = NoLock
  /\ reader = NoRead
  /\ committed = <<>>
  /\ puts = 0

\* What earlier calls left for a date: nothing, a file of an earlier version
\* alone, or the row and the file that process_date wrote for a record.
StoredLocally(d) ==
  {[row |-> NoRec, file |-> f] : f \in LegacyFiles(d)}
  \cup {[row |-> Row(r), file |-> r] :
          r \in {Rec(d, Url(d), NoError, EventsA), Rec(d, Url(d), ParseError, NoEvents)}}

\* No _make_request call is running and none has returned.
NoRequest == [pc |-> "none", stage |-> <<0, "none">>, field |-> "none", retry_count |-> 0,
              attempts |-> 0, asked |-> {}, out |-> RequestsOk]

\* No sync_with_supabase call is running.
SyncIdle ==
  /\ sync_pc = "none"
  /\ unsynced_data = <<>>
  /\ success_count = 0
  /\ total_count = 0
  /\ sync_before = <<>>
  /\ succeeded = {}
  /\ remote_reachable = FALSE
  /\ request = NoRequest

\* No process_date_range arguments are drawn.
NoArgs == [none |-> TRUE]
RangeArgsIdle == range_args = NoArgs

\* forecast_data = {}: a dict as its keys in insertion order and its values.
EmptyForecast == [order |-> <<>>, at |-> <<>>]

\* No timeline is prepared.
ForecastIdle ==
  /\ timeline_data = <<>>
  /\ timeline_range = <<>>
  /\ forecast_data = EmptyForecast
  /\ forecast_log = <<>>

\* No reply is parsed.
NoText == <<>>
ParseIdle ==
  /\ response = NoText
  /\ response_origin = NoArgs
  /\ parsed = NoRec

\* No page text is cut into sections.
ExtractIdle ==
  /\ page_text = NoText
  /\ keyword_sections = NoRec

\* A key that has no row in a settings table.
NoValue == "no row"
Keys == {"default_days_to_show", "llm_model"}

\* init_db: the settings table with the default number of days.
InitialSettings == [k \in Keys |-> IF k = "default_days_to_show" THEN "14" ELSE NoValue]

\* No setting is saved or asked for.
SettingsIdle ==
  /\ local_settings = InitialSettings
  /\ remote_settings = [k \in Keys |-> NoValue]
  /\ got_setting = NoArgs

\* Everything outside process_date and the statements is idle, but the part named.
IdleBut(part) ==
  /\ IF part = "sync" THEN TRUE ELSE SyncIdle
  /\ IF part = "range" THEN TRUE ELSE RangeArgsIdle
  /\ IF part = "forecast" THEN TRUE ELSE ForecastIdle
  /\ IF part = "parse" THEN TRUE ELSE ParseIdle
  /\ IF part = "extract" THEN TRUE ELSE ExtractIdle
  /\ IF part = "settings" THEN TRUE ELSE SettingsIdle

ExtrasIdle == IdleBut("none")

\* An installation between two calls: for the first date possibly what an
\* earlier call left and a row that another installation pushed.
Init ==
  /\ \E l \in StoredLocally(FirstDate) :
       /\ primary = [d \in Dates |-> IF d = FirstDate THEN l.row ELSE NoRec]
       /\ snapshot = [d \in Dates |-> IF d = FirstDate THEN l.file ELSE NoRec]
  /\ \E r \in RemoteRows(FirstDate) : remote = [d \in Dates |-> IF d = FirstDate THEN r ELSE NoRec]
  /\ supabase_client \in BOOLEAN
  /\ CallsIdle
  /\ StatementsIdle
  /\ ExtrasIdle

\* ----------------------------------------------------------- process_date

\* The call returns v from the branch named p.
Return(v, p) ==
  /\ pc' = "done"
  /\ result' = v
  /\ path' = p

\* An exception leaves the call.
Abort ==
  /\ pc' = "done"
  /\ raised' = TRUE
  /\ UNCHANGED <<result, path>>

\* A lookup that reads the JSON file whatever Primary returned.
load_json_always(db_data, files, d) == load_data(files, d)

\* Lines 91-93: the JSON file is read only when Primary returned nothing.
load_json_fallback(db_data, files, d) ==
  IF db_data = NoRec THEN load_data(files, d) ELSE NoRec

\* Lines 88-129 up to the first Remote lookup: Primary, then the JSON file
\* (imported to Primary when found), then the branch on force_refresh and on
\* the events of what was found.
Start(d, force, k) ==
  /\ pc = "idle"
  /\ calls' = calls + 1
  /\ LET db_data == load_data_from_db(primary, d)
         json_data == load_json_fallback(db_data, snapshot, d)
         existing == IF db_data # NoRec THEN db_data ELSE json_data
     IN /\ primary' = IF json_data # NoRec THEN save_data_to_db(primary, json_data)
                      ELSE primary
        /\ existing_data' = existing
        /\ local_data' = existing
        /\ IF force THEN pc' = "scrape" /\ UNCHANGED <<result, path>>
           ELSE IF existing # NoRec /\ HasUsableEvents(existing)
                THEN Return(existing, IF db_data # NoRec THEN "cache_hit" ELSE "json_hit")
                ELSE pc' = "supabase" /\ UNCHANGED <<result, path>>
  /\ date_str' = d
  /\ force_refresh' = force
  /\ max_retries' = k
  /\ raised' = FALSE
  /\ remote_data' = NoRec
  /\ remote_lookups' = 0
  /\ normalizer_calls' = 0
  /\ llm_requests' = 0
  /\ push' = "none"
  /\ UNCHANGED <<snapshot, remote, supabase_client, analysis, statements, extras>>

\* process_date called on its own, as the admin and refresh buttons do.
process_date_start(d, force, k) ==
  /\ range_pc = "none"
  /\ calls < MaxCalls
  /\ Start(d, force, k)
  /\ UNCHANGED range

\* Lines 99-103 (nothing found locally) and 115-127 (found, but without
\* events or with an error): the Remote lookup and what follows from it.
process_date_supabase(out) ==
  /\ pc = "supabase"
  /\ UNCHANGED <<calls, range>>
  /\ LET got == check_supabase_for_data(primary, remote, supabase_client, date_str, out)
     IN IF got.exc THEN Abort /\ UNCHANGED <<primary, remote_data, remote_lookups>>
        ELSE /\ primary' = got.db
             /\ remote_data' = IF supabase_client THEN get_date(remote, date_str, out).val
                               ELSE NoRec
             /\ remote_lookups' = IF supabase_client THEN remote_lookups + 1
                                  ELSE remote_lookups
             /\ raised' = raised
             /\ IF got.val # NoRec /\ HasUsableEvents(got.val)
                THEN Return(got.val, "remote")
                ELSE IF existing_data # NoRec
                     THEN Return(existing_data, "local_empty")
                     ELSE pc' = "scrape" /\ UNCHANGED <<result, path>>
  /\ UNCHANGED <<snapshot, remote, supabase_client, args, existing_data, analysis,
                 local_data, normalizer_calls, llm_requests, push, statements, extras>>

\* Lines 131-156: scrape, the minimal structure when nothing came back, the
\* sections, and the start of the retry loop.
process_date_scrape(page) ==
  /\ pc = "scrape"
  /\ UNCHANGED <<calls, range>>
  /\ LET got == scrape_spaceweather(date_str, page)
         scraped == IF got.val = NoRec THEN MinimalScraped(date_str) ELSE got.val
     IN IF got.exc THEN Abort /\ UNCHANGED <<analysis, normalizer_calls>>
        ELSE /\ sections' = extract_spaceweather_sections(scraped)
             /\ retries' = 0
             /\ retry_count' = 0
             /\ last_error' = FALSE
             /\ analyzed_data' = NoRec
             /\ normalizer_calls' = 1
             /\ pc' = "llm"
             /\ UNCHANGED <<result, path, raised>>
  /\ UNCHANGED <<stores, args, existing_data, local_data, remote_data, remote_lookups,
                 llm_requests, push, statements, extras>>

\* Lines 158-194 around one call_llm of the running analysis: the iteration
\* of analyze_spaceweather_data's loop and, when the analysis returns, the
\* test of process_date's loop, its next analysis or the end of the loop.
process_date_llm(answer) ==
  /\ pc = "llm"
  /\ UNCHANGED <<calls, range>>
  /\ LET reply == IF SkipsRequest(sections) THEN ReplyNone ELSE answer
         it == analyze_iteration(reply, sections, retry_count, last_error)
     IN /\ llm_requests' = IF SkipsRequest(sections) THEN llm_requests ELSE llm_requests + 1
        /\ IF ~it.done
           THEN /\ retry_count' = it.rc
                /\ last_error' = it.last_error
                /\ UNCHANGED <<pc, retries, analyzed_data, normalizer_calls>>
           ELSE /\ retry_count' = 0
                /\ last_error' = FALSE
                /\ IF AnalysisSucceeded(it.val)
                   THEN /\ analyzed_data' = it.val
                        /\ pc' = "persist"
                        /\ UNCHANGED <<retries, normalizer_calls>>
                   ELSE IF LoopEnds(retries + 1, max_retries)
                        THEN /\ analyzed_data' = FinalData(it.val, date_str, sections.url)
                             /\ pc' = "persist"
                             /\ retries' = retries + 1
                             /\ UNCHANGED normalizer_calls
                        ELSE /\ analyzed_data' = NoRec
                             /\ retries' = retries + 1
                             /\ normalizer_calls' = normalizer_calls + 1
                             /\ UNCHANGED pc
  /\ UNCHANGED <<stores, args, existing_data, sections, result, raised, path, local_data,
                 remote_data, remote_lookups, push, statements, extras>>

\* Lines 196-201: save to Primary, then to the JSON file of date_str.
process_date_persist ==
  /\ pc = "persist"
  /\ UNCHANGED <<calls, range>>
  /\ primary' = save_data_to_db(primary, analyzed_data)
  /\ snapshot' = save_data(snapshot, analyzed_data, date_str)
  /\ pc' = "sync"
  /\ UNCHANGED <<remote, supabase_client, args, existing_data, analysis, result, raised,
                 path, history, statements, extras>>

\* Lines 203-214: the push to Remote when there is a client, inside
\* try/except, and the return of the analyzed data.
process_date_sync(out) ==
  /\ pc = "sync"
  /\ UNCHANGED <<calls, range>>
  /\ IF supabase_client
     THEN LET s == sync_date(remote, analyzed_data, out)
          IN remote' = s.rem /\ push' = IF s.ok THEN "synced" ELSE "failed"
     ELSE UNCHANGED remote /\ push' = "no_client"
  /\ Return(analyzed_data, "persisted")
  /\ UNCHANGED <<primary, snapshot, supabase_client, args, existing_data, analysis, raised,
                 local_data, remote_data, remote_lookups, normalizer_calls, llm_requests,
                 statements, extras>>

\* The caller has the result; the locals of the call are gone.
process_date_return ==
  /\ pc = "done"
  /\ results' = IF range_pc = "dates" THEN Append(results, result) ELSE results
  /\ paths' = IF range_pc = "dates" THEN Append(paths, path) ELSE paths
  /\ UNCHANGED <<calls, range_pc, range_force, date_range, statements, extras>>
  /\ pc' = "idle"
  /\ date_str' = NoDate
  /\ force_refresh' = FALSE
  /\ max_retries' = 0
  /\ existing_data' = NoRec
  /\ sections' = NoSections
  /\ retries' = 0
  /\ retry_count' = 0
  /\ last_error' = FALSE
  /\ analyzed_data' = NoRec
  /\ result' = NoRec
  /\ raised' = FALSE
  /\ path' = "none"
  /\ local_data' = NoRec
  /\ remote_data' = NoRec
  /\ remote_lookups' = 0
  /\ normalizer_calls' = 0
  /\ llm_requests' = 0
  /\ push' = "none"
  /\ UNCHANGED stores

\* ----------------------------------------------------- process_date_range

\* A datetime as half days: midnight of day d is 2 * d, and now is today at
\* tod half days past midnight (0: at midnight exactly).
Midnight(d) == 2 * d
DayOf(t) == t \div 2

\* A start that is taken as it is given.
KeepStart(start_obj, earliest) == start_obj

\* Lines 249-252: a start earlier than earliest_date becomes earliest_date.
ClampStart(start_obj, earliest) == IF start_obj < earliest THEN earliest ELSE start_obj

\* Lines 229-263: the defaults of end_date and start_date, the clamp of the
\* end to now and of the start to now - days, and the dates from the start
\* to the end, one day apart.
DateRangeOf(start_date, end_date, days, tod) ==
  LET now == Midnight(Today) + tod
      end_str == IF end_date = NoDate THEN Today ELSE end_date
      start_str == IF start_date = NoDate THEN end_str - days ELSE start_date
      end_obj == IF Midnight(end_str) > now THEN now ELSE Midnight(end_str)
      earliest == now - Midnight(days)
      current == ClampStart(Midnight(start_str), earliest)
      n == IF current > end_obj THEN 0 ELSE (end_obj - current) \div 2 + 1
      temps == [i \in 1..n |-> current + 2 * (i - 1)]
  IN [i \in 1..Len(SelectSeq(temps, LAMBDA t : t <= now)) |->
        DayOf(SelectSeq(temps, LAMBDA t : t <= now)[i])]

\* The body of SupabaseClient.get_all_dates: every dates row with its events;
\* None when the dates request fails; a failed events request raises.
get_all_dates_body(rem, out) ==
  IF ~out.get \/ \A d \in DOMAIN rem : rem[d] = NoRec THEN Returns([d \in {} |-> NoRec])
  ELSE IF ~out.events THEN [exc |-> TRUE, val |-> [d \in {} |-> NoRec]]
  ELSE Returns([d \in {x \in DOMAIN rem : rem[x] # NoRec} |->
                  Rec(rem[d].date, rem[d].url, rem[d].error,
                      [c \in CategorySet |-> SignificantFirst(rem[d].events[c])])])

\* SupabaseClient.get_all_dates: the body inside try/except, any exception is [].
get_all_dates(rem, out) ==
  LET r == get_all_dates_body(rem, out) IN IF r.exc THEN Returns([d \in {} |-> NoRec]) ELSE r

\* An import that takes every Remote record of the range.
ImportUnfiltered(db, data) == save_data_to_db(db, data)

\* Lines 277-285 for one record of the range.
ImportRemote(db, data) == IF HasUsableEvents(data) THEN save_data_to_db(db, data) ELSE db

\* Lines 273-285: the Remote records of the dates in date_range, each saved
\* to Primary when it has events and no error.
RECURSIVE ImportAll(_, _, _)
ImportAll(db, all, todo) ==
  IF todo = {} THEN db
  ELSE LET d == CHOOSE x \in todo : TRUE
       IN ImportAll(ImportRemote(db, all[d]), all, todo \ {d})

InRange(seq) == {seq[i] : i \in 1..Len(seq)}

\* Lines 229-263: the arguments and the date range.
process_date_range_start(start_date, end_date, days, force, tod) ==
  /\ pc = "idle"
  /\ range_pc = "none"
  /\ calls + Len(DateRangeOf(start_date, end_date, days, tod)) <= MaxCalls
  /\ date_range' = DateRangeOf(start_date, end_date, days, tod)
  /\ range_force' = force
  /\ results' = <<>>
  /\ paths' = <<>>
  /\ range_pc' = IF force THEN "dates" ELSE "probe"
  /\ UNCHANGED <<stores, pc, args, existing_data, analysis, result, raised, path,
                 history, calls, statements, extras>>

\* Lines 265-289: without force_refresh and with a client, all Remote dates
\* are read and those of the range imported, inside try/except.
process_date_range_probe(out) ==
  /\ range_pc = "probe"
  /\ LET got == get_all_dates(remote, out)
     IN primary' = IF supabase_client /\ ~got.exc
                   THEN ImportAll(primary, got.val, DOMAIN got.val \cap InRange(date_range))
                   ELSE primary
  /\ range_pc' = "dates"
  /\ UNCHANGED <<snapshot, remote, supabase_client, pc, args, existing_data, analysis,
                 result, raised, path, history, calls, range_force, date_range, results,
                 paths, statements, extras>>

\* Lines 293-294: process_date for the next date of the range, with the
\* default max_retries.
process_date_range_next ==
  /\ range_pc = "dates"
  /\ Len(results) < Len(date_range)
  /\ Start(date_range[Len(results) + 1], range_force, DEFAULT_MAX_RETRIES)
  /\ UNCHANGED range

\* Line 298: the results are returned.
process_date_range_return ==
  /\ range_pc = "dates"
  /\ pc = "idle"
  /\ Len(results) = Len(date_range)
  /\ range_pc' = "done"
  /\ UNCHANGED <<stores, pc, args, existing_data, analysis, result, raised, path,
                 history, calls, range_force, date_range, results, paths, statements, extras>>

\* The caller has the results.
process_date_range_done ==
  /\ range_pc = "done"
  /\ range_pc' = "none"
  /\ range_force' = FALSE
  /\ date_range' = <<>>
  /\ results' = <<>>
  /\ paths' = <<>>
  /\ UNCHANGED <<stores, pc, args, existing_data, analysis, result, raised, path,
                 history, calls, statements, extras>>

RangeStarts == {NoDate} \cup (Today - Lookback - 1)..Today
RangeEnds == {NoDate, Today, Today + 1}

Next ==
  \/ \E d \in Dates, force \in BOOLEAN, k \in {0, MaxRetriesArg} : process_date_start(d, force, k)
  \/ \E out \in RequestOutcomes : process_date_supabase(out)
  \/ \E page \in PageOutcomes : process_date_scrape(page)
  \/ \E answer \in Replies : process_date_llm(answer)
  \/ process_date_persist
  \/ \E out \in {RequestsOk, RequestsFail} : process_date_sync(out)
  \/ process_date_return
  \/ \E start_date \in RangeStarts, end_date \in RangeEnds, force \in BOOLEAN, tod \in {0, 1} :
       process_date_range_start(start_date, end_date, Lookback, force, tod)
  \/ \E out \in RequestOutcomes : process_date_range_probe(out)
  \/ process_date_range_next
  \/ process_date_range_return
  \/ process_date_range_done

Spec == Init /\ [][Next]_vars

\* ------------------------------------ the same date asked for twice

calls_vars == <<pc, args, existing_data, analysis, result, raised, path, history, calls>>

\* A caller that asks for process_date(d) twice in a row, force_refresh left
\* at its default.
process_date_twice(d) ==
  /\ pc = "idle"
  /\ range_pc = "none"
  /\ calls = 0
  /\ date_range' = <<d, d>>
  /\ range_force' = FALSE
  /\ results' = <<>>
  /\ paths' = <<>>
  /\ range_pc' = "dates"
  /\ UNCHANGED <<stores, calls_vars, statements, extras>>

NextTwice ==
  \/ \E d \in Dates : process_date_twice(d)
  \/ process_date_range_next
  \/ \E out \in RequestOutcomes : process_date_supabase(out)
  \/ \E page \in PageOutcomes : process_date_scrape(page)
  \/ \E answer \in Replies : process_date_llm(answer)
  \/ process_date_persist
  \/ \E out \in {RequestsOk, RequestsFail} : process_date_sync(out)
  \/ process_date_return
  \/ process_date_range_return
  \/ process_date_range_done

SpecTwice == Init /\ [][NextTwice]_vars

\* ------------------------ save_data_to_db and load_data_from_db, by statement

EventsC == [NoEvents EXCEPT !["cme"] = <<EvS, EvN>>, !["sunspot"] = <<EvN>>]

\* The records that are saved.
StoreRecords ==
  {Rec(FirstDate, Url(FirstDate), NoError, EventsA),
   Rec(FirstDate, Url(FirstDate), NoError, EventsB),
   Rec(FirstDate, Url(FirstDate), ParseError, NoEvents),
   Rec(Today, Url(Today), NoError, EventsA)}

\* What the database held before: nothing, or a record of the first date.
InitStatements ==
  /\ primary = [d \in Dates |-> NoRec]
  /\ snapshot = [d \in Dates |-> NoRec]
  /\ remote = [d \in Dates |-> NoRec]
  /\ supabase_client = FALSE
  /\ CallsIdle
  /\ \E before \in {<<>>, <<Rec(FirstDate, Url(FirstDate), NoError, EventsC)>>} :
       /\ committed = before
       /\ tables = IF before = <<>> THEN EmptyTables ELSE SaveAlone(EmptyTables, before[1])
  /\ txn = [w \in Connections |-> NoTxn]
  /\ lock = NoLock
  /\ reader = NoRead
  /\ puts = 0
  /\ ExtrasIdle

main_vars == <<stores, calls_vars, range, extras>>

\* save_data_to_db(data) is called on a connection of its own.
save_call(w, data) ==
  /\ txn[w].pc = "idle"
  /\ puts < MaxPuts
  /\ puts' = puts + 1
  /\ txn' = [txn EXCEPT ![w] = [NoTxn EXCEPT !.pc = "select", !.data = data]]
  /\ UNCHANGED <<main_vars, tables, lock, reader, committed>>

\* Lines 108-110: SELECT id FROM dates WHERE date = ?, outside a transaction.
save_select_id(w) ==
  /\ txn[w].pc = "select"
  /\ LET row == SelectDate(tables, txn[w].data.date)
     IN txn' = [txn EXCEPT ![w].pc = "write_date",
                           ![w].date_id = IF row = NoRec THEN 0 ELSE row.id]
  /\ UNCHANGED <<main_vars, tables, lock, reader, committed, puts>>

\* The call returns None: the except branch has rolled the transaction back.
Rollback(w) ==
  /\ txn' = [txn EXCEPT ![w] = NoTxn]
  /\ lock' = IF lock = w THEN NoLock ELSE lock
  /\ UNCHANGED <<tables, committed>>

\* Lines 112-126: the first write opens the transaction and takes the write
\* lock; UPDATE of the row found, or INSERT of a new one, which the UNIQUE
\* constraint refuses when another connection has inserted the date since.
save_write_date(w) ==
  /\ txn[w].pc = "write_date"
  /\ lock = NoLock
  /\ LET data == txn[w].data
         id == txn[w].date_id
     IN IF id # 0
        THEN LET work == UpdateDate(tables, id, data.url, data.error)
             IN /\ txn' = [txn EXCEPT ![w].pc = "delete", ![w].work = work]
                /\ tables' = AfterStatement(tables, work)
                /\ lock' = w
                /\ UNCHANGED committed
        ELSE IF ~Unique(tables, data.date)
             THEN Rollback(w)
             ELSE LET work == InsertDate(tables, data.date, data.url, data.error)
                  IN /\ txn' = [txn EXCEPT ![w].pc = "insert", ![w].work = work,
                                            ![w].date_id = tables.next_id]
                     /\ tables' = AfterStatement(tables, work)
                     /\ lock' = w
                     /\ UNCHANGED committed
  /\ UNCHANGED <<main_vars, reader, puts>>

\* The write lock is held by another connection until the busy timeout ends:
\* the statement raises, the call rolls back and returns None.
save_busy(w) ==
  /\ txn[w].pc = "write_date"
  /\ lock \notin {NoLock, w}
  /\ Rollback(w)
  /\ UNCHANGED <<main_vars, reader, puts>>

\* Line 121: DELETE FROM events WHERE date_id = ?
save_delete_events(w) ==
  /\ txn[w].pc = "delete"
  /\ LET work == DeleteEvents(txn[w].work, txn[w].date_id)
     IN /\ txn' = [txn EXCEPT ![w].pc = "insert", ![w].work = work]
        /\ tables' = AfterStatement(tables, work)
  /\ UNCHANGED <<main_vars, lock, reader, committed, puts>>

\* Lines 130-148: the INSERT of the next event.
save_insert_event(w) ==
  /\ txn[w].pc = "insert"
  /\ LET rows == EventRows(txn[w].data.events, 1)
         i == txn[w].i
     IN /\ i <= Len(rows)
        /\ LET work == InsertEvent(txn[w].work, txn[w].date_id, rows[i].category, rows[i].ev)
           IN /\ txn' = [txn EXCEPT ![w].i = i + 1, ![w].work = work]
              /\ tables' = AfterStatement(tables, work)
  /\ UNCHANGED <<main_vars, lock, reader, committed, puts>>

\* Lines 150-152: conn.commit() after the last event.
save_commit(w) ==
  /\ txn[w].pc = "insert"
  /\ txn[w].i > Len(EventRows(txn[w].data.events, 1))
  /\ tables' = txn[w].work
  /\ committed' = Append(committed, txn[w].data)
  /\ lock' = NoLock
  /\ txn' = [txn EXCEPT ![w] = NoTxn]
  /\ UNCHANGED <<main_vars, reader, puts>>

\* Lines 154-157: a statement of the open transaction raises.
save_rollback(w) ==
  /\ txn[w].pc \in {"delete", "insert"}
  /\ Rollback(w)
  /\ UNCHANGED <<main_vars, reader, puts>>

\* load_data_from_db(d) is called on a connection of its own.
load_call(d) ==
  /\ reader.pc = "idle"
  /\ reader' = [NoRead EXCEPT !.pc = "select_date", !.d = d]
  /\ UNCHANGED <<main_vars, tables, txn, lock, committed, puts>>

\* Lines 177-182: SELECT * FROM dates WHERE date = ?; None when there is no row.
load_select_date ==
  /\ reader.pc = "select_date"
  /\ LET row == SelectDate(tables, reader.d)
     IN reader' = [reader EXCEPT !.pc = IF row = NoRec THEN "done" ELSE "select_events",
                                 !.date_record = row,
                                 !.v1 = Len(committed), !.v2 = Len(committed)]
  /\ UNCHANGED <<main_vars, tables, txn, lock, committed, puts>>

\* Lines 184-221: SELECT of the events of the row, and the dict built from both.
load_select_events ==
  /\ reader.pc = "select_events"
  /\ LET row == reader.date_record
     IN reader' = [reader EXCEPT
                     !.pc = "done",
                     !.result = Rec(row.date, row.url, row.error, SelectEvents(tables, row.id)),
                     !.v2 = Len(committed),
                     !.open = \E w \in Connections :
                                /\ lock = w
                                /\ txn[w].data.date = reader.d
                                /\ txn[w].work.events # tables.events]
  /\ UNCHANGED <<main_vars, tables, txn, lock, committed, puts>>

\* The caller has the record.
load_return ==
  /\ reader.pc = "done"
  /\ reader' = NoRead
  /\ UNCHANGED <<main_vars, tables, txn, lock, committed, puts>>

NextStatements ==
  \/ \E w \in Connections, data \in StoreRecords : save_call(w, data)
  \/ \E w \in Connections : save_select_id(w)
  \/ \E w \in Connections : save_write_date(w)
  \/ \E w \in Connections : save_busy(w)
  \/ \E w \in Connections : save_delete_events(w)
  \/ \E w \in Connections : save_insert_event(w)
  \/ \E w \in Connections : save_commit(w)
  \/ \E w \in Connections : save_rollback(w)
  \/ \E d \in Dates : load_call(d)
  \/ load_select_date
  \/ load_select_events
  \/ load_return

SpecStatements == InitStatements /\ [][NextStatements]_vars

\* ------------------------------------------------------ sync_with_supabase

\* The dates of S in ascending order (ORDER BY date).
RECURSIVE Ascending(_)
Ascending(S) ==
  IF S = {} THEN <<>>
  ELSE LET m == CHOOSE x \in S : \A y \in S : x <= y IN <<m>> \o Ascending(S \ {m})

\* get_unsynced_data as the list it returns: the rows with synced = 0, by
\* date, each as the dict load_data_from_db builds, with the id of its row.
unsynced_records(db) ==
  LET ds == Ascending(get_unsynced_data(db))
  IN [i \in 1..Len(ds) |-> [id |-> ds[i], data |-> load_data_from_db(db, ds[i])]]

\* A mark_as_synced that updates no row.
mark_nothing(db, id) == db

\* mark_as_synced: UPDATE dates SET synced = 1 WHERE id = ?
mark_as_synced(db, id) == [db EXCEPT ![id].synced = TRUE]

\* One request of sync_date fails while the others are answered.
PutFails == [RequestsOk EXCEPT !.put = FALSE]
DeleteFails == [RequestsOk EXCEPT !.del = FALSE]
InsertFails == [RequestsOk EXCEPT !.ins = FALSE]
PostFails == [RequestsOk EXCEPT !.post = FALSE]
SyncOutcomes == {RequestsOk, RequestsFail, PutFails, DeleteFails, InsertFails, PostFails}

\* Rows that Primary holds for a date, pushed before or not.
SyncRows(d) ==
  {NoRec, Row(Rec(d, Url(d), NoError, EventsA)), Row(Rec(d, Url(d), ParseError, NoEvents)),
   [Row(Rec(d, Url(d), NoError, EventsB)) EXCEPT !.synced = TRUE]}

\* An installation before a reconciliation: any of these rows for each date,
\* and on Remote for the first date what the synced row was pushed as, a
\* row of another installation, or nothing.
InitSync ==
  /\ primary \in [Dates -> UNION {SyncRows(d) : d \in Dates}]
  /\ \A d \in Dates : primary[d] \in SyncRows(d)
  /\ snapshot = [d \in Dates |-> NoRec]
  /\ \E r \in RemoteRows(FirstDate) :
       remote = [d \in Dates |->
                   IF primary[d] # NoRec /\ primary[d].synced
                   THEN [kind |-> "rec", date |-> d, url |-> Url(d), error |-> NoError,
                         events |-> EventsB]
                   ELSE IF d = FirstDate THEN r ELSE NoRec]
  /\ supabase_client \in BOOLEAN
  /\ CallsIdle
  /\ StatementsIdle
  /\ ExtrasIdle

sync_frame == <<snapshot, supabase_client, calls_vars, range, statements, functions,
               remote_reachable, request>>

\* Lines 358-366: without a client (0, 0) is returned; with one the unsynced
\* records are read and counted.
sync_with_supabase_start ==
  /\ sync_pc = "none"
  /\ pc = "idle"
  /\ range_pc = "none"
  /\ sync_before' = primary
  /\ succeeded' = {}
  /\ success_count' = 0
  /\ IF supabase_client
     THEN /\ unsynced_data' = unsynced_records(primary)
          /\ total_count' = Len(unsynced_records(primary))
          /\ sync_pc' = "push"
     ELSE /\ unsynced_data' = <<>>
          /\ total_count' = 0
          /\ sync_pc' = "done"
  /\ UNCHANGED <<primary, remote, sync_frame>>

\* Lines 368-375: the next record is pushed, and marked when sync_date
\* returns True.
sync_with_supabase_push(out) ==
  /\ sync_pc = "push"
  /\ unsynced_data # <<>>
  /\ LET rec == Head(unsynced_data)
         s == sync_date(remote, rec.data, out)
     IN /\ remote' = s.rem
        /\ primary' = IF s.ok THEN mark_as_synced(primary, rec.id) ELSE primary
        /\ success_count' = IF s.ok THEN success_count + 1 ELSE success_count
        /\ succeeded' = IF s.ok THEN succeeded \cup {rec.id} ELSE succeeded
  /\ unsynced_data' = Tail(unsynced_data)
  /\ UNCHANGED <<sync_pc, total_count, sync_before, sync_frame>>

\* Line 377: return success_count, total_count.
sync_with_supabase_return ==
  /\ sync_pc = "push"
  /\ unsynced_data = <<>>
  /\ sync_pc' = "done"
  /\ UNCHANGED <<primary, remote, unsynced_data, success_count, total_count, sync_before,
                 succeeded, sync_frame>>

\* The caller has the two counts.
sync_with_supabase_done ==
  /\ sync_pc = "done"
  /\ sync_pc' = "none"
  /\ unsynced_data' = <<>>
  /\ success_count' = 0
  /\ total_count' = 0
  /\ sync_before' = <<>>
  /\ succeeded' = {}
  /\ UNCHANGED <<primary, remote, sync_frame>>

NextSync ==
  \/ sync_with_supabase_start
  \/ \E out \in SyncOutcomes : sync_with_supabase_push(out)
  \/ sync_with_supabase_return
  \/ sync_with_supabase_done

SpecSync == InitSync /\ [][NextSync]_vars

\* sync_with_supabase in one session of the app while another session runs
\* process_date with force_refresh (the refresh button) on the same database.
NextSyncPut ==
  \/ NextSync
  \/ \E d \in Dates : process_date_start(d, TRUE, 0)
  \/ \E page \in PageOutcomes : process_date_scrape(page)
  \/ \E answer \in Replies : process_date_llm(answer)
  \/ process_date_persist
  \/ \E out \in {RequestsOk, RequestsFail} : process_date_sync(out)
  \/ process_date_return

SpecSyncPut == InitSync /\ [][NextSyncPut]_vars

\* From now on every request to Remote is answered.
remote_recovers ==
  /\ supabase_client
  /\ ~remote_reachable
  /\ remote_reachable' = TRUE
  /\ UNCHANGED <<stores, calls_vars, range, statements, functions, sync_pc, unsynced_data,
                 success_count, total_count, sync_before, succeeded, request>>

\* The push of the next record: any outcome of its requests, and once Remote
\* is reachable for good every request answered.
sync_with_supabase_push_next ==
  \E out \in IF remote_reachable THEN {RequestsOk} ELSE SyncOutcomes :
    sync_with_supabase_push(out)

NextSyncLive ==
  \/ sync_with_supabase_start
  \/ sync_with_supabase_push_next
  \/ sync_with_supabase_return
  \/ sync_with_supabase_done
  \/ remote_recovers

\* sync_with_supabase is called again and again, each call runs to its end,
\* and nothing else writes to Primary.
SpecSyncLive ==
  /\ InitSync
  /\ [][NextSyncLive]_vars
  /\ WF_vars(sync_with_supabase_start)
  /\ WF_vars(sync_with_supabase_push_next)
  /\ WF_vars(sync_with_supabase_return)
  /\ WF_vars(sync_with_supabase_done)

\* ----------------------------------- process_date when a local write fails

\* save_data_to_db when a statement raises, lines 154-157: the transaction is
\* rolled back, the error is logged and None is returned.
save_data_to_db_failed(db, data) == db

\* Lines 196-201 when a write fails. Primary: save_data_to_db has caught the
\* exception and its return value is not looked at, the JSON file is written
\* and the call goes on. Snapshot: the row is saved, save_data raises and
\* nothing catches the exception.
process_date_persist_fails(store) ==
  /\ pc = "persist"
  /\ UNCHANGED <<calls, range>>
  /\ IF store = "primary"
     THEN /\ primary' = save_data_to_db_failed(primary, analyzed_data)
          /\ snapshot' = save_data(snapshot, analyzed_data, date_str)
          /\ pc' = "sync"
          /\ UNCHANGED <<result, raised, path>>
     ELSE /\ primary' = save_data_to_db(primary, analyzed_data)
          /\ Abort
          /\ UNCHANGED snapshot
  /\ UNCHANGED <<remote, supabase_client, args, existing_data, analysis, history,
                 statements, extras>>

NextWriteFails ==
  \/ Next
  \/ \E store \in {"primary", "snapshot"} : process_date_persist_fails(store)

SpecWriteFails == Init /\ [][NextWriteFails]_vars

\* ------------------------------ process_date with its Remote request loops

\* What one requests.get/post/put/delete of _make_request does: a reply, the
\* status 400 on a request whose params hold "id", a timeout, or any other
\* RequestException (an error status included).
Answers == {"ok", "400_id", "timeout", "error"}

\* The requests whose params hold the text "id".
IdParams == {"get", "events", "del"}

\* A loop that gives up one attempt later.
GivesUpLate(n) == n > REQUEST_MAX_RETRIES

\* Lines 104 and 110: the test after retry_count += 1.
GivesUp(n) == n >= REQUEST_MAX_RETRIES

\* The requests of the running stage of process_date so far: those of the
\* stage the record was made for, none when the stage is new.
Requests ==
  IF request.stage = <<calls, pc>> THEN request
  ELSE [NoRequest EXCEPT !.stage = <<calls, pc>>]

\* The next _make_request the stage calls, "none" when it calls no more.
\* get_date (lines 240-262): the dates row, and its events when a row came
\* back. sync_date (lines 145-219): the id of the date; the update and the
\* delete, or the insert; then the event inserts.
NextRequest(r) ==
  LET has(f) == f \in r.asked
      d == IF pc = "sync" THEN analyzed_data.date ELSE date_str
      found == r.out.get /\ remote[d] # NoRec
      events == IF pc = "sync" /\ total_events(analyzed_data.events) > 0 /\ ~has("ins")
                THEN "ins" ELSE "none"
  IN IF ~has("get") THEN "get"
     ELSE IF pc = "supabase"
          THEN IF found /\ ~has("events") THEN "events" ELSE "none"
          ELSE IF found
               THEN IF ~has("put") THEN "put" ELSE IF ~has("del") THEN "del" ELSE events
               ELSE IF ~has("post") THEN "post"
                    ELSE IF r.out.post THEN events ELSE "none"

\* Lines 69-72: a stage of process_date calls _make_request.
make_request_call ==
  /\ pc \in {"supabase", "sync"}
  /\ supabase_client
  /\ Requests.pc # "try"
  /\ NextRequest(Requests) # "none"
  /\ request' = [Requests EXCEPT !.pc = "try", !.field = NextRequest(Requests),
                                 !.retry_count = 0, !.attempts = 0]
  /\ UNCHANGED <<stores, calls_vars, range, statements, functions, sync_pc, unsynced_data,
                 success_count, total_count, sync_before, succeeded, remote_reachable>>

\* Lines 74-113: one iteration of the loop of _make_request.
make_request_attempt(answer) ==
  /\ request.pc = "try"
  /\ LET returned(v) == [request EXCEPT !.pc = "returned", !.attempts = @ + 1,
                                        !.asked = @ \cup {request.field},
                                        !.out = [@ EXCEPT ![request.field] = v]]
     IN request' =
          IF answer = "ok" THEN returned(TRUE)
          ELSE IF answer = "400_id" /\ request.field \in IdParams THEN returned(FALSE)
          ELSE IF GivesUp(request.retry_count + 1)
               THEN [returned(FALSE) EXCEPT !.retry_count = request.retry_count + 1]
               ELSE [request EXCEPT !.retry_count = @ + 1, !.attempts = @ + 1]
  /\ UNCHANGED <<stores, calls_vars, range, statements, functions, sync_pc, unsynced_data,
                 success_count, total_count, sync_before, succeeded, remote_reachable>>

\* The stage has made its requests, or there is no client.
StageAnswered ==
  \/ ~supabase_client
  \/ request.stage = <<calls, pc>> /\ request.pc = "returned" /\ NextRequest(request) = "none"

\* The Remote lookup of process_date with what its requests returned.
process_date_supabase_answered ==
  /\ StageAnswered
  /\ process_date_supabase(IF supabase_client THEN request.out ELSE RequestsOk)

\* The push of process_date with what its requests returned.
process_date_sync_answered ==
  /\ StageAnswered
  /\ process_date_sync(IF supabase_client THEN request.out ELSE RequestsOk)

NextLive ==
  \/ \E d \in Dates, force \in BOOLEAN, k \in 0..MaxRetriesArg : process_date_start(d, force, k)
  \/ make_request_call
  \/ \E answer \in Answers : make_request_attempt(answer)
  \/ process_date_supabase_answered
  \/ \E page \in PageOutcomes : process_date_scrape(page)
  \/ \E answer \in Replies : process_date_llm(answer)
  \/ process_date_persist
  \/ process_date_sync_answered
  \/ process_date_return

\* Every collaborator call returns: a step that can be taken is taken.
SpecLive ==
  /\ Init
  /\ [][NextLive]_vars
  /\ WF_vars(make_request_call)
  /\ WF_vars(\E answer \in Answers : make_request_attempt(answer))
  /\ WF_vars(process_date_supabase_answered)
  /\ WF_vars(\E page \in PageOutcomes : process_date_scrape(page))
  /\ WF_vars(\E answer \in Replies : process_date_llm(answer))
  /\ WF_vars(process_date_persist)
  /\ WF_vars(process_date_sync_answered)

\* -------------------------------------------- the date range, applied alone

\* The arguments of process_date_range: a start and an end that are absent,
\* long ago, around the earliest date, or in the future; days negative, zero,
\* small, or the default; the clock at midnight or later in the day.
RangeArgs ==
  [start_date : {NoDate, Today - 400} \cup (Today - Lookback - 3)..(Today + 1),
   end_date : {NoDate, Today + 10} \cup (Today - Lookback - 1)..(Today + 1),
   days : (-1..(Lookback + 1)) \cup {DEFAULT_DAYS},
   tod : {0, 1}]

EmptyStores ==
  /\ primary = [d \in Dates |-> NoRec]
  /\ snapshot = [d \in Dates |-> NoRec]
  /\ remote = [d \in Dates |-> NoRec]
  /\ supabase_client = FALSE

InitRange ==
  /\ EmptyStores
  /\ CallsIdle
  /\ StatementsIdle
  /\ IdleBut("range")
  /\ range_args \in RangeArgs

\* Lines 229-263 for the arguments drawn: date_range is ready for the loop.
date_range_ready ==
  /\ range_pc = "none"
  /\ range_args # NoArgs
  /\ date_range' = DateRangeOf(range_args.start_date, range_args.end_date,
                               range_args.days, range_args.tod)
  /\ range_pc' = "ready"
  /\ UNCHANGED <<stores, calls_vars, range_force, results, paths, statements, extras>>

NextRange == date_range_ready

SpecRange == InitRange /\ [][NextRange]_vars

\* ---------------------------------------------------- calculate_date_range

\* An admin_selected_date that strptime refuses.
BadDate == NoDate - 1

\* Lines 23-25: days_to_show that is not a positive integer becomes 14.
ValidDays(days_to_show) == IF days_to_show <= 0 THEN DEFAULT_DAYS_TO_SHOW ELSE days_to_show

\* Lines 27-65: start_date and end_date as datetimes. With a centre date:
\* the centre, no later than now + forecast_days, half of the days on each
\* side, and when the end is past now + forecast_days the end clamped and
\* the start days_to_show - 1 before it. Without one (or with one that does
\* not parse): the end now + forecast_days and the start
\* days_to_show - forecast_days - 1 before now.
DateBounds(admin_selected_date, days_to_show, forecast_days, tod) ==
  LET days == ValidDays(days_to_show)
      today == Midnight(Today) + tod
      max_future_date == today + Midnight(forecast_days)
      center_date == IF Midnight(admin_selected_date) > max_future_date
                     THEN max_future_date ELSE Midnight(admin_selected_date)
      half_days == days \div 2
      end_centred == center_date + Midnight(half_days)
  IN IF admin_selected_date \in {NoDate, BadDate}
     THEN [start_date |-> today - Midnight(days - forecast_days - 1),
           end_date |-> today + Midnight(forecast_days)]
     ELSE IF end_centred > max_future_date
          THEN [start_date |-> max_future_date - Midnight(days - 1),
                end_date |-> max_future_date]
          ELSE [start_date |-> center_date - Midnight(half_days), end_date |-> end_centred]

\* Lines 67-73: the dates from start_date to end_date, one day apart.
calculate_date_range(admin_selected_date, days_to_show, forecast_days, tod) ==
  LET b == DateBounds(admin_selected_date, days_to_show, forecast_days, tod)
      n == IF b.start_date > b.end_date THEN 0
           ELSE (b.end_date - b.start_date) \div 2 + 1
  IN [i \in 1..n |-> DayOf(b.start_date + 2 * (i - 1))]

\* The arguments of calculate_date_range: no centre date, one that does not
\* parse, or a day before, around or after today; days_to_show zero, small or
\* the default; forecast_days none to three; the clock at midnight or later.
DateArgs ==
  [admin_selected_date : {NoDate, BadDate} \cup 1..(Today + 5),
   days_to_show : (0..MaxDays) \cup {DEFAULT_DAYS_TO_SHOW},
   forecast_days : 0..3,
   tod : {0, 1}]

InitDates ==
  /\ EmptyStores
  /\ CallsIdle
  /\ StatementsIdle
  /\ IdleBut("range")
  /\ range_args \in DateArgs

\* calculate_date_range for the arguments drawn.
calculate_date_range_call ==
  /\ range_pc = "none"
  /\ range_args # NoArgs
  /\ date_range' = calculate_date_range(range_args.admin_selected_date,
                                        range_args.days_to_show,
                                        range_args.forecast_days, range_args.tod)
  /\ range_pc' = "calculated"
  /\ UNCHANGED <<stores, calls_vars, range_force, results, paths, statements, extras>>

NextDates == calculate_date_range_call

SpecDates == InitDates /\ [][NextDates]_vars

\* --------------------------------------------------- generate_forecast_data

\* Lines 409-427: the events of data_list in the order of the scan, record by
\* record, category by category, each with its category and its record's date.
\* A None entry is skipped.
EventsOfCategory(data, c) ==
  [i \in 1..Len(data.events[c]) |->
     [category |-> c, event |-> data.events[c][i], date |-> data.date]]

RECURSIVE OverCategories(_, _)
OverCategories(data, i) ==
  IF i > Len(Categories) THEN <<>>
  ELSE EventsOfCategory(data, Categories[i]) \o OverCategories(data, i + 1)

RECURSIVE Scan(_, _)
Scan(data_list, i) ==
  IF i > Len(data_list) THEN <<>>
  ELSE (IF data_list[i] = NoRec THEN <<>> ELSE OverCategories(data_list[i], 1))
       \o Scan(data_list, i + 1)

\* Line 403: the dates of date_range after today.
FutureDates(date_range_arg) ==
  {date_range_arg[i] : i \in 1..Len(date_range_arg)} \cap {d \in Int : d > Today}

\* The observation date taken from the event itself.
event_own_date(data_date, event) == event.date

\* Line 444: "date": data.get("date"), the date of the record scanned.
observation_date(data_date, event) == data_date

\* Lines 442-449: the forecast event made of an event.
forecast_event(data_date, event) ==
  [tone |-> event.tone, date |-> observation_date(data_date, event),
   predicted_arrival |-> event.predicted_arrival,
   detail |-> <<"Forecast", event.detail>>, image_url |-> event.image_url,
   is_forecast |-> TRUE]

\* An entry that is not marked as a forecast.
unmarked_entry(f) == [kind |-> "rec", date |-> f, is_forecast |-> FALSE, events |-> NoEvents]

\* Lines 429-439: the entry created for a future date.
forecast_entry(f) == [kind |-> "rec", date |-> f, is_forecast |-> TRUE, events |-> NoEvents]

\* Lines 424-451 for the events scanned: an event whose predicted_arrival is
\* one of the future dates is appended, as a forecast event, to its category
\* in the entry of that date, which is created when it is not there.
RECURSIVE AddForecasts(_, _, _, _)
AddForecasts(fd, scanned, future, i) ==
  IF i > Len(scanned) THEN fd
  ELSE LET f == scanned[i].event.predicted_arrival
           c == scanned[i].category
           known == f \in DOMAIN fd.at
           entry == IF known THEN fd.at[f] ELSE forecast_entry(f)
           added == [entry EXCEPT !.events[c] =
                       Append(@, forecast_event(scanned[i].date, scanned[i].event))]
       IN IF f = NoDate \/ f \notin future
          THEN AddForecasts(fd, scanned, future, i + 1)
          ELSE AddForecasts(
                 [order |-> IF known THEN fd.order ELSE Append(fd.order, f),
                  at |-> [x \in DOMAIN fd.at \cup {f} |-> IF x = f THEN added ELSE fd.at[x]]],
                 scanned, future, i + 1)

\* A dict that outlives the call.
KeptForecastData(kept) == kept

\* Line 399: forecast_data = {}, new in each call.
NewForecastData(kept) == EmptyForecast

\* generate_forecast_data; kept is what an earlier call returned.
generate_forecast_data(data_list, date_range_arg, kept) ==
  IF FutureDates(date_range_arg) = {} THEN NewForecastData(kept)
  ELSE AddForecasts(NewForecastData(kept), Scan(data_list, 1), FutureDates(date_range_arg), 1)

\* The values of the dict in insertion order.
ForecastValues(fd) == [i \in 1..Len(fd.order) |-> fd.at[fd.order[i]]]

\* Events as the model dates them: with or without a predicted arrival.
Arriving(ev, p) == [ev EXCEPT !.predicted_arrival = p]

EventsOne(p) == [NoEvents EXCEPT !.cme = <<Arriving(EvS, p)>>]
EventsTwo(p, q) ==
  [NoEvents EXCEPT !.cme = <<Arriving(EvS, p)>>, !.flares = <<EvN, Arriving(EvS, q)>>]

\* The records a timeline is drawn from: None, a record of yesterday or of
\* today with one event that arrives never, today, tomorrow, or five days
\* after the record's date, and a record of today with arrivals in two categories.
TimelineRecords ==
  {NoRec, Rec(Today, Url(Today), NoError, EventsTwo(Today + 1, Today + 1))}
  \cup {Rec(D, Url(D), NoError, EventsOne(p)) :
          D \in {Today - 1, Today}, p \in {NoDate, Today, Today + 1}}
  \cup {Rec(D, Url(D), NoError, EventsOne(D + 5)) : D \in {Today - 1, Today}}

RECURSIVE ListsUpTo(_, _)
ListsUpTo(S, n) ==
  IF n = 0 THEN {<<>>}
  ELSE ListsUpTo(S, n - 1) \cup {Append(l, x) : l \in ListsUpTo(S, n - 1), x \in S}

\* The date ranges of a timeline: up to today, or into the next four or five days.
Windows ==
  {[i \in 1..n |-> Today - 2 + i] : n \in {2, 6, 7}}

\* The stores hold nothing yet for the dates up to tomorrow.
InitForecast ==
  /\ primary = [d \in Dates \cup {Today + 1} |-> NoRec]
  /\ snapshot = [d \in Dates \cup {Today + 1} |-> NoRec]
  /\ remote = [d \in Dates \cup {Today + 1} |-> NoRec]
  /\ supabase_client \in BOOLEAN
  /\ CallsIdle
  /\ StatementsIdle
  /\ IdleBut("forecast")
  /\ forecast_data = EmptyForecast
  /\ forecast_log = <<>>
  /\ timeline_data \in ListsUpTo(TimelineRecords, MaxList) \ {<<>>}
  /\ timeline_range \in Windows

\* generate_forecast_data(timeline_data, date_range) called on its own.
generate_forecast_data_call ==
  /\ pc = "idle"
  /\ Len(forecast_log) < MaxForecasts
  /\ forecast_data' = generate_forecast_data(timeline_data, timeline_range, forecast_data)
  /\ forecast_log' = Append(forecast_log,
                            [data_list |-> timeline_data, date_range |-> timeline_range,
                             result |-> forecast_data'])
  /\ UNCHANGED <<timeline_data, timeline_range, range_args, parsing, extracting,
                 settings_store>>
  /\ UNCHANGED <<stores, calls_vars, range, statements, syncing>>

\* prepare_timeline_data, lines 282-289: with include_forecast the forecast
\* records are appended to the caller's timeline_data. The counts and the
\* frame it returns are built from the list and kept nowhere.
prepare_timeline_data(include_forecast) ==
  /\ pc = "idle"
  /\ Len(forecast_log) < MaxForecasts
  /\ IF include_forecast
     THEN /\ forecast_data' =
               generate_forecast_data(timeline_data, timeline_range, forecast_data)
          /\ timeline_data' = timeline_data \o ForecastValues(forecast_data')
          /\ forecast_log' = Append(forecast_log,
                                    [data_list |-> timeline_data,
                                     date_range |-> timeline_range,
                                     result |-> forecast_data'])
     ELSE UNCHANGED <<timeline_data, forecast_data, forecast_log>>
  /\ UNCHANGED <<timeline_range, range_args, parsing, extracting, settings_store>>
  /\ UNCHANGED <<stores, calls_vars, range, statements, syncing>>

\* What the model replies for today: a record dated today, or dated tomorrow.
RepliesAhead == {Reply("json", NoDate, EventsA), Reply("json", Today + 1, EventsA)}

\* The timeline of a session: today is refreshed (process_date with
\* force_refresh) before the timeline is prepared, then forecasts are made.
NextForecast ==
  \/ /\ forecast_log = <<>>
     /\ calls = 0
     /\ process_date_start(Today, TRUE, 0)
  \/ \E page \in PageOutcomes : process_date_scrape(page)
  \/ \E answer \in RepliesAhead : process_date_llm(answer)
  \/ process_date_persist
  \/ \E out \in {RequestsOk, RequestsFail} : process_date_sync(out)
  \/ process_date_return
  \/ generate_forecast_data_call
  \/ \E include_forecast \in BOOLEAN : prepare_timeline_data(include_forecast)

SpecForecast == InitForecast /\ [][NextForecast]_vars

\* ---------------------------------------- parse_llm_response on the text

\* A text is a sequence of atoms: the characters that matter to the parser
\* and to its regular expressions, each on its own, and words.
Quote == "\""
\* The code fence (three backquotes) and the fence that opens a json block.
Fence == "fence"
JsonFence == "fence json"
Literals == {"null", "true", "false", "1"}
Marks == {"{", "}", "[", "]", ":", ",", Quote, Fence, JsonFence}

\* The first position from i on whose atom is in S, or 0.
IndexFrom(t, S, i) ==
  IF \E j \in i..Len(t) : t[j] \in S
  THEN CHOOSE j \in i..Len(t) : t[j] \in S /\ \A k \in i..(j - 1) : t[k] \notin S
  ELSE 0

\* str.count
CountOf(t, c) == Cardinality({j \in 1..Len(t) : t[j] = c})

\* The text has pat at position i.
MatchAt(t, i, pat) ==
  i >= 1 /\ i + Len(pat) - 1 <= Len(t) /\ SubSeq(t, i, i + Len(pat) - 1) = pat

\* JSON values: a string (its atoms), a literal, an array, an object (its
\* keys in order, each a string, and their values).
Str(atoms) == [t |-> "str", s |-> atoms]
Lit(w) == [t |-> "lit", s |-> w]
Arr(items) == [t |-> "arr", items |-> items]
Obj(keys, vals) == [t |-> "obj", keys |-> keys, vals |-> vals]

\* key in dict, dict[key], dict[key] = value
Has(obj, key) == \E i \in 1..Len(obj.keys) : obj.keys[i] = key
Get(obj, key) ==
  obj.vals[CHOOSE i \in 1..Len(obj.keys) :
             obj.keys[i] = key /\ \A j \in (i + 1)..Len(obj.keys) : obj.keys[j] # key]
With(obj, key, val) ==
  IF Has(obj, key)
  THEN Obj(obj.keys, [i \in 1..Len(obj.keys) |-> IF obj.keys[i] = key THEN val ELSE obj.vals[i]])
  ELSE Obj(Append(obj.keys, key), Append(obj.vals, val))

\* json.dumps without white space.
RECURSIVE Dump(_), DumpItems(_, _), DumpMembers(_, _, _)
Dump(v) ==
  CASE v.t = "str" -> <<Quote>> \o v.s \o <<Quote>>
    [] v.t = "lit" -> <<v.s>>
    [] v.t = "arr" -> <<"[">> \o DumpItems(v.items, 1) \o <<"]">>
    [] v.t = "obj" -> <<"{">> \o DumpMembers(v.keys, v.vals, 1) \o <<"}">>
DumpItems(items, i) ==
  IF i > Len(items) THEN <<>>
  ELSE Dump(items[i]) \o (IF i < Len(items) THEN <<",">> ELSE <<>>) \o DumpItems(items, i + 1)
DumpMembers(keys, vals, i) ==
  IF i > Len(keys) THEN <<>>
  ELSE <<Quote>> \o keys[i] \o <<Quote, ":">> \o Dump(vals[i])
       \o (IF i < Len(keys) THEN <<",">> ELSE <<>>) \o DumpMembers(keys, vals, i + 1)

\* json.loads: the value that starts at i and the position after it, or a
\* JSONDecodeError.
DecodeError == [ok |-> FALSE, val |-> Lit("null"), next |-> 0]
Decoded(v, n) == [ok |-> TRUE, val |-> v, next |-> n]

RECURSIVE ParseValue(_, _), ParseItems(_, _, _), ParseMembers(_, _, _, _)
ParseValue(t, i) ==
  IF i > Len(t) THEN DecodeError
  ELSE IF t[i] = Quote
  THEN LET j == IndexFrom(t, {Quote}, i + 1)
       IN IF j = 0 THEN DecodeError ELSE Decoded(Str(SubSeq(t, i + 1, j - 1)), j + 1)
  ELSE IF t[i] \in Literals THEN Decoded(Lit(t[i]), i + 1)
  ELSE IF t[i] = "["
  THEN IF i < Len(t) /\ t[i + 1] = "]" THEN Decoded(Arr(<<>>), i + 2)
       ELSE ParseItems(t, i + 1, <<>>)
  ELSE IF t[i] = "{"
  THEN IF i < Len(t) /\ t[i + 1] = "}" THEN Decoded(Obj(<<>>, <<>>), i + 2)
       ELSE ParseMembers(t, i + 1, <<>>, <<>>)
  ELSE DecodeError
ParseItems(t, i, acc) ==
  LET v == ParseValue(t, i)
  IN IF ~v.ok \/ v.next > Len(t) THEN DecodeError
     ELSE IF t[v.next] = "," THEN ParseItems(t, v.next + 1, Append(acc, v.val))
     ELSE IF t[v.next] = "]" THEN Decoded(Arr(Append(acc, v.val)), v.next + 1)
     ELSE DecodeError
ParseMembers(t, i, keys, vals) ==
  LET k == ParseValue(t, i)
  IN IF ~k.ok \/ k.val.t # "str" \/ k.next > Len(t) \/ t[k.next] # ":" THEN DecodeError
     ELSE LET v == ParseValue(t, k.next + 1)
          IN IF ~v.ok \/ v.next > Len(t) THEN DecodeError
             ELSE IF t[v.next] = ","
             THEN ParseMembers(t, v.next + 1, With(Obj(keys, vals), k.val.s, v.val).keys,
                               With(Obj(keys, vals), k.val.s, v.val).vals)
             ELSE IF t[v.next] = "}"
             THEN Decoded(With(Obj(keys, vals), k.val.s, v.val), v.next + 1)
             ELSE DecodeError

\* json.loads(text): the whole text is one value.
json_loads(t) ==
  LET v == ParseValue(t, 1)
  IN IF v.ok /\ v.next = Len(t) + 1 THEN v ELSE DecodeError

\* Lines 440-447: the content of the first json block, or of the first code
\* block that is closed, or the response itself.
ExtractBlock(t) ==
  LET a == IndexFrom(t, {JsonFence}, 1)
      b == IndexFrom(t, {Fence, JsonFence}, a + 1)
      c == IndexFrom(t, {Fence}, 1)
      d == IndexFrom(t, {Fence}, c + 1)
  IN IF a # 0 THEN SubSeq(t, a + 1, IF b = 0 THEN Len(t) ELSE b - 1)
     ELSE IF c # 0 /\ d # 0 THEN SubSeq(t, c + 1, d - 1)
     ELSE t

\* Lines 450-460: when the block does not start with a brace, the shortest
\* stretch of the response from its first opening brace to a closing brace.
\* The second pattern asks for such a stretch too and finds none when the
\* first finds none.
FindObject(t, json_str) ==
  LET a == IndexFrom(t, {"{"}, 1)
      b == IF a = 0 THEN 0 ELSE IndexFrom(t, {"}"}, a + 1)
  IN IF json_str # <<>> /\ json_str[1] = "{" THEN json_str
     ELSE IF b # 0 THEN SubSeq(t, a, b)
     ELSE json_str

\* An atom that was taken out of a text, and the text without such atoms.
Gone == ""
Squeeze(t) == SelectSeq(t, LAMBDA a : a # Gone)

\* re.sub(r',\s*}', '}', ...) and re.sub(r',\s*]', ']', ...)
DropCommaBefore(t, c) ==
  Squeeze([i \in 1..Len(t) |->
             IF t[i] = "," /\ i < Len(t) /\ t[i + 1] = c THEN Gone ELSE t[i]])

\* The atoms that are words of letters, digits and underscores.
IsWord(a) == a \notin Marks \cup {"2024-05-02", "2024-05-03"}

\* re.sub(r'([{,])\s*([a-zA-Z0-9_]+)\s*:', r'\1"\2":', ...): each atom with
\* what is put before and after it.
QuoteBareKeys(t) ==
  LET bare(j) == /\ j > 1
                 /\ j < Len(t)
                 /\ t[j - 1] \in {"{", ","}
                 /\ IsWord(t[j])
                 /\ t[j + 1] = ":"
  IN Squeeze([k \in 1..(3 * Len(t)) |->
                IF k % 3 = 2 THEN t[(k + 1) \div 3]
                ELSE IF bare((k + 2) \div 3) THEN Quote ELSE Gone])

\* sanitize_json_response: trailing commas and bare keys. The texts drawn hold
\* no control character, no True or False and no single quote.
sanitize_json_response(t) ==
  QuoteBareKeys(DropCommaBefore(DropCommaBefore(t, "}"), "]"))

\* Lines 478-481: as many closing braces appended as are missing.
RECURSIVE Braces(_)
Braces(n) == IF n <= 0 THEN <<>> ELSE <<"}">> \o Braces(n - 1)
AppendMissingBraces(t) == t \o Braces(CountOf(t, "{") - CountOf(t, "}"))

\* str.replace(s, s + '"') for an s that starts with its only quote: every
\* occurrence of s gets a quote after it.
QuoteAfter(t, s) ==
  Squeeze([k \in 1..(2 * Len(t)) |->
             IF k % 2 = 1 THEN t[(k + 1) \div 2]
             ELSE IF MatchAt(t, k \div 2 - Len(s) + 1, s) THEN Quote ELSE Gone])

\* Lines 487-491: re.findall(r'"[^"]*$', json_str) is the text from its last
\* quote to its end, whenever it holds a quote; that text gets a quote after it.
TerminateStrings(t) ==
  IF CountOf(t, Quote) = 0 THEN t
  ELSE LET last == CHOOSE j \in 1..Len(t) :
                     t[j] = Quote /\ \A k \in (j + 1)..Len(t) : t[k] # Quote
       IN QuoteAfter(t, SubSeq(t, last, Len(t)))

\* Lines 501-502: re.search(r'"date"\s*:\s*"([^"]+)"', json_str)
DateMatch(t) ==
  LET found(i) == /\ MatchAt(t, i, <<Quote, "date", Quote, ":", Quote>>)
                  /\ i + 5 <= Len(t)
                  /\ t[i + 5] # Quote
                  /\ IndexFrom(t, {Quote}, i + 5) # 0
  IN IF \E i \in 1..Len(t) : found(i)
     THEN LET i == CHOOSE i \in 1..Len(t) : found(i) /\ \A k \in 1..(i - 1) : ~found(k)
          IN SubSeq(t, i + 5, IndexFrom(t, {Quote}, i + 5) - 1)
     ELSE <<>>

\* Lines 515-523: re.finditer(r'\{(.*?)\}', category_content), each match
\* parsed on its own and skipped when it does not parse.
RECURSIVE EventObjects(_, _, _)
EventObjects(content, pos, acc) ==
  LET a == IndexFrom(content, {"{"}, pos)
      b == IF a = 0 THEN 0 ELSE IndexFrom(content, {"}"}, a + 1)
  IN IF b = 0 THEN acc
     ELSE LET event_data == json_loads(SubSeq(content, a, b))
          IN EventObjects(content, b + 1,
                          IF event_data.ok THEN Append(acc, event_data.val) ELSE acc)

\* Lines 509-513: re.search(rf'"{category}"\s*:\s*\[(.*?)\]', json_str), the
\* content up to the first closing bracket.
CategoryEvents(t, c) ==
  LET found(i) == /\ MatchAt(t, i, <<Quote, c, Quote, ":", "[">>)
                  /\ IndexFrom(t, {"]"}, i + 5) # 0
  IN IF \E i \in 1..Len(t) : found(i)
     THEN LET i == CHOOSE i \in 1..Len(t) : found(i) /\ \A k \in 1..(i - 1) : ~found(k)
          IN EventObjects(SubSeq(t, i + 5, IndexFrom(t, {"]"}, i + 5) - 1), 1, <<>>)
     ELSE <<>>

\* Lines 499-529: the partial structure, the date found or the sections' date
\* and per category the event objects that parse.
PartialStructure(t, sections_arg) ==
  Obj(<<<<"date">>, <<"events">>>>,
      <<Str(IF DateMatch(t) # <<>> THEN DateMatch(t) ELSE <<sections_arg.date>>),
        Obj([i \in 1..Len(Categories) |-> <<Categories[i]>>],
            [i \in 1..Len(Categories) |-> Arr(CategoryEvents(t, Categories[i]))])>>)

EmptyReplyError == "LLM returned None or empty response"

\* Lines 423-433 and 558-568: the structure returned with an error.
ParseFallback(sections_arg, error) ==
  [kind |-> "rec", date |-> Str(<<sections_arg.date>>), url |-> sections_arg.url,
   error |-> error, events |-> [c \in CategorySet |-> Arr(<<>>)]]

\* Lines 476-494: the braces and the strings are fixed and the text parsed again.
Repair(t) == json_loads(TerminateStrings(AppendMissingBraces(t)))

\* Lines 469-534: the text parsed as it is, else after the fixes, else the
\* partial structure made of the fixed text.
LoadOrRepair(t, sections_arg) ==
  IF json_loads(t).ok THEN json_loads(t).val
  ELSE IF Repair(t).ok THEN Repair(t).val
  ELSE PartialStructure(TerminateStrings(AppendMissingBraces(t)), sections_arg)

\* Lines 536-551: url, date and events are made present, and each category.
\* Subscripting what is not a dict raises, which the except turns into the
\* structure with an error.
Complete(data, sections_arg) ==
  IF data.t # "obj" THEN ParseFallback(sections_arg, ParseError)
  ELSE LET dated == IF Has(data, <<"date">>) THEN data
                    ELSE With(data, <<"date">>, Str(<<sections_arg.date>>))
           events == IF Has(dated, <<"events">>) THEN Get(dated, <<"events">>)
                     ELSE Obj(<<>>, <<>>)
       IN IF events.t # "obj" THEN ParseFallback(sections_arg, ParseError)
          ELSE [kind |-> "rec", date |-> Get(dated, <<"date">>), url |-> sections_arg.url,
                error |-> NoError,
                events |-> [c \in CategorySet |->
                              IF Has(events, <<c>>) THEN Get(events, <<c>>) ELSE Arr(<<>>)]]

\* parse_llm_response on the text of the reply.
parse_llm_response_text(t, sections_arg) ==
  IF t = NoText THEN ParseFallback(sections_arg, EmptyReplyError)
  ELSE Complete(LoadOrRepair(sanitize_json_response(FindObject(t, ExtractBlock(t))),
                             sections_arg),
                sections_arg)

\* The sections of the date the reply is about.
ParseSections == [date |-> "2024-05-03", url |-> "url"]

\* An event as the model writes it, with the atoms of its detail.
EventValue(detail) ==
  Obj(<<<<"tone">>, <<"detail">>>>, <<Str(<<"Significant">>), Str(detail)>>)

\* Details: plain words, and words with a bracket or a brace among them.
PlainEvent == EventValue(<<"filament", "eruption">>)
FlareEvent == EventValue(<<"M4", "flare">>)
BracketEvent == EventValue(<<"region", "[", "AR3664", "]">>)
BraceEvent == EventValue(<<"set", "{", "x", "}">>)

EventsValue(cme, flares) ==
  Obj(<<<<"cme">>, <<"sunspot">>, <<"flares">>, <<"coronal_holes">>>>,
      <<Arr(cme), Arr(<<>>), Arr(flares), Arr(<<>>)>>)

\* A bundle with the date it states (<<>>: no "date" key) and its events.
BundleValue(date, events) ==
  IF date = <<>> THEN Obj(<<<<"events">>>>, <<events>>)
  ELSE Obj(<<<<"date">>, <<"events">>>>, <<Str(date), events>>)

Bundles ==
  {BundleValue(date, EventsValue(cme, flares)) :
     date \in {<<>>, <<"2024-05-03">>, <<"2024-05-02">>},
     cme \in {<<>>, <<PlainEvent>>, <<PlainEvent, BracketEvent>>, <<BraceEvent>>},
     flares \in {<<>>, <<FlareEvent>>}}

\* The first closing brace of the text that closes an element of a list.
FirstEventBrace(t) ==
  LET closes(j) == t[j] = "}" /\ j < Len(t) /\ t[j + 1] \in {",", "]"}
  IN IF \E j \in 1..Len(t) : closes(j)
     THEN CHOOSE j \in 1..Len(t) : closes(j) /\ \A k \in 1..(j - 1) : ~closes(k)
     ELSE 0

\* How the model writes a bundle: as it is, without its last closing brace,
\* without the closing brace of its first event, inside a json block, inside
\* a json block without its last closing brace, or after some words.
Damages == {"intact", "last_brace", "event_brace", "fenced", "fenced_last_brace", "prefixed"}

Written(bundle, damage) ==
  LET t == Dump(bundle)
      e == FirstEventBrace(t)
  IN CASE damage = "intact" -> t
       [] damage = "last_brace" -> SubSeq(t, 1, Len(t) - 1)
       [] damage = "event_brace" -> SubSeq(t, 1, e - 1) \o SubSeq(t, e + 1, Len(t))
       [] damage = "fenced" -> <<"Here", JsonFence>> \o t \o <<Fence>>
       [] damage = "fenced_last_brace" -> <<JsonFence>> \o SubSeq(t, 1, Len(t) - 1) \o <<Fence>>
       [] damage = "prefixed" -> <<"Here", "it", "is", ":">> \o t

\* Replies that are no bundle: words, words between braces, a quoted word,
\* a list, and nothing.
Prose ==
  {<<"Sorry", "no", "data">>, <<"I", "cannot", "help">>,
   <<"Sorry", "{", "none", "}">>, <<"It", "said", Quote, "no", Quote>>,
   <<"[", "1", "]">>, NoText}

\* The replies parse_llm_response is given.
InitParse ==
  /\ EmptyStores
  /\ CallsIdle
  /\ StatementsIdle
  /\ IdleBut("parse")
  /\ parsed = NoRec
  /\ \/ \E b \in Bundles, d \in Damages :
          /\ d = "event_brace" => FirstEventBrace(Dump(b)) # 0
          /\ response_origin = [kind |-> "bundle", bundle |-> b, damage |-> d]
          /\ response = Written(b, d)
     \/ \E t \in Prose :
          /\ response_origin = [kind |-> "prose", bundle |-> Lit("null"), damage |-> "none"]
          /\ response = t

\* parse_llm_response(response, sections)
parse_llm_response_call ==
  /\ response_origin # NoArgs
  /\ parsed = NoRec
  /\ parsed' = parse_llm_response_text(response, ParseSections)
  /\ UNCHANGED <<response, response_origin>>
  /\ UNCHANGED <<stores, calls_vars, range, statements, syncing, range_args,
                 forecasting, extracting, settings_store>>

NextParse == parse_llm_response_call

SpecParse == InitParse /\ [][NextParse]_vars

\* ------------------------------- extract_spaceweather_sections on the text

\* A text is the sequence of its characters.
UpperCase ==
  <<"A", "B", "C", "D", "E", "F", "G", "H", "I", "J", "K", "L", "M",
    "N", "O", "P", "Q", "R", "S", "T", "U", "V", "W", "X", "Y", "Z">>

LowerCase ==
  <<"a", "b", "c", "d", "e", "f", "g", "h", "i", "j", "k", "l", "m",
    "n", "o", "p", "q", "r", "s", "t", "u", "v", "w", "x", "y", "z">>

\* re.IGNORECASE: characters are compared with the case folded.
Fold(c) ==
  IF \E i \in 1..Len(UpperCase) : UpperCase[i] = c
  THEN LowerCase[CHOOSE i \in 1..Len(UpperCase) : UpperCase[i] = c]
  ELSE c

\* The keywords of extract_spaceweather_sections, a text being the sequence
\* of its characters.
\* 'coronal mass ejection', 'CME', 'filament eruption'
CmeKeywords ==
  <<<<"c", "o", "r", "o", "n", "a", "l", " ", "m", "a", "s", "s", " ", "e",
      "j", "e", "c", "t", "i", "o", "n">>,
    <<"C", "M", "E">>,
    <<"f", "i", "l", "a", "m", "e", "n", "t", " ", "e", "r", "u", "p", "t",
      "i", "o", "n">>>>

\* 'sunspot', 'sunspots', 'AR'
SunspotKeywords ==
  <<<<"s", "u", "n", "s", "p", "o", "t">>,
    <<"s", "u", "n", "s", "p", "o", "t", "s">>,
    <<"A", "R">>>>

\* 'solar flare', 'X-class', 'M-class', 'C-class'
FlareKeywords ==
  <<<<"s", "o", "l", "a", "r", " ", "f", "l", "a", "r", "e">>,
    <<"X", "-", "c", "l", "a", "s", "s">>,
    <<"M", "-", "c", "l", "a", "s", "s">>,
    <<"C", "-", "c", "l", "a", "s", "s">>>>

\* 'coronal hole', 'solar wind'
CoronalHoleKeywords ==
  <<<<"c", "o", "r", "o", "n", "a", "l", " ", "h", "o", "l", "e">>,
    <<"s", "o", "l", "a", "r", " ", "w", "i", "n", "d">>>>

\* Keyword matches the text at position i, characters compared with the case folded.
KeywordAt(text, keyword, i) ==
  /\ i + Len(keyword) - 1 <= Len(text)
  /\ \A j \in 1..Len(keyword) : Fold(text[i + j - 1]) = Fold(keyword[j])

\* re.finditer: the matches from left to right, none overlapping the one before.
RECURSIVE finditer(_, _, _)
finditer(keyword, text, from) ==
  LET found == {i \in from..Len(text) : KeywordAt(text, keyword, i)}
  IN  IF found = {} THEN <<>>
      ELSE LET i == CHOOSE m \in found : \A n \in found : m <= n
           IN  <<i>> \o finditer(keyword, text, i + Len(keyword))

Max2(a, b) == IF a >= b THEN a ELSE b

Min2(a, b) == IF a <= b THEN a ELSE b

\* text[start:end] around the match at position i (positions from 1).
Snippet(text, keyword, i, context_chars) ==
  SubSeq(text, Max2(1, i - context_chars),
               Min2(Len(text), i + Len(keyword) - 1 + context_chars))

\* The snippets of all keywords, in the order they are appended.
RECURSIVE Snippets(_, _, _, _)
Snippets(text, keywords, context_chars, k) ==
  IF k > Len(keywords) THEN <<>>
  ELSE LET at == finditer(keywords[k], text, 1)
       IN  [n \in 1..Len(at) |-> Snippet(text, keywords[k], at[n], context_chars)]
           \o Snippets(text, keywords, context_chars, k + 1)

\* Duplicates removed, the order of the first occurrences kept.
unique_snippets(snippets) ==
  LET first(n) == \A m \in 1..(n - 1) : snippets[m] # snippets[n]
      kept     == {n \in 1..Len(snippets) : first(n)}
      rank(n)  == Cardinality({m \in kept : m <= n})
  IN  [r \in 1..Cardinality(kept) |->
         snippets[CHOOSE n \in kept : rank(n) = r]]

extract_text_around_keywords(text, keywords, context_chars) ==
  unique_snippets(Snippets(text, keywords, context_chars, 1))

\* The sections extract_spaceweather_sections makes of the text of a page.
keyword_sections_of(text) ==
  [cme           |-> extract_text_around_keywords(text, CmeKeywords, CONTEXT_CHARS),
   sunspot       |-> extract_text_around_keywords(text, SunspotKeywords, CONTEXT_CHARS),
   flares        |-> extract_text_around_keywords(text, FlareKeywords, CONTEXT_CHARS),
   coronal_holes |-> extract_text_around_keywords(text, CoronalHoleKeywords, CONTEXT_CHARS),
   full_text     |-> text]

\* scraped_data is None: there is no text. The marker is no text of a page.
NoScraped == <<"no scraped data">>

\* What the call returned when it returned None (NoRec: no call yet).
ReturnedNone == [kind |-> "None"]

\* extract_spaceweather_sections, lines 117-140: None when scraped_data is
\* None or empty, the sections of its text otherwise.
extract_spaceweather_sections_of(scraped_text) ==
  IF scraped_text = NoScraped THEN ReturnedNone ELSE keyword_sections_of(scraped_text)

\* Phrases of a page.
M4Flare ==
  <<"M", "4", " ", "s", "o", "l", "a", "r", " ", "f", "l", "a", "r", "e">>

\* M4 solar flare, quiet sun, no storms, a CME left, AR3664 grew, coronal hole, two sunspots
Phrases ==
  {M4Flare,
   <<"q", "u", "i", "e", "t", " ", "s", "u", "n">>,
   <<"n", "o", " ", "s", "t", "o", "r", "m", "s">>,
   <<"a", " ", "C", "M", "E", " ", "l", "e", "f", "t">>,
   <<"A", "R", "3", "6", "6", "4", " ", "g", "r", "e", "w">>,
   <<"c", "o", "r", "o", "n", "a", "l", " ", "h", "o", "l", "e">>,
   <<"t", "w", "o", " ", "s", "u", "n", "s", "p", "o", "t", "s">>}

Space == <<" ">>

\* Pages of up to MaxPhrases phrases, a space between two.
RECURSIVE PagesOf(_)
PagesOf(n) ==
  IF n = 1 THEN Phrases
  ELSE PagesOf(n - 1) \cup {t \o Space \o p : t \in PagesOf(n - 1), p \in Phrases}

Pages == PagesOf(MaxPhrases)

InitExtract ==
  /\ EmptyStores
  /\ CallsIdle
  /\ StatementsIdle
  /\ IdleBut("extract")
  /\ page_text \in Pages \cup {NoScraped}
  /\ keyword_sections = NoRec

\* extract_spaceweather_sections(scraped_data)
extract_spaceweather_sections_call ==
  /\ page_text # NoText
  /\ keyword_sections = NoRec
  /\ keyword_sections' = extract_spaceweather_sections_of(page_text)
  /\ UNCHANGED page_text
  /\ UNCHANGED <<stores, calls_vars, range, statements, syncing, range_args,
                 forecasting, parsing, settings_store>>

NextExtract == extract_spaceweather_sections_call

SpecExtract == InitExtract /\ [][NextExtract]_vars


\* ------------------------------------------------ save_setting and get_setting

\* SupabaseClient.sync_setting: look the key up; update its row, or insert
\* one. A failed request is not looked at.
sync_setting(rem, key, value, out) ==
  IF out.get /\ rem[key] # NoValue
  THEN IF out.put THEN [rem EXCEPT ![key] = value] ELSE rem
  ELSE IF out.post /\ rem[key] = NoValue THEN [rem EXCEPT ![key] = value] ELSE rem

\* get_setting: SELECT value FROM settings WHERE key = ?, or default.
get_setting(settings, key, default) ==
  IF settings[key] # NoValue THEN settings[key] ELSE default

\* Values that the admin panel of this or another installation saves.
Values == {"7", "30"}

\* An installation and the replica after some settings were saved.
InitSettings ==
  /\ primary = [d \in Dates |-> NoRec]
  /\ snapshot = [d \in Dates |-> NoRec]
  /\ remote = [d \in Dates |-> NoRec]
  /\ supabase_client \in BOOLEAN
  /\ CallsIdle
  /\ StatementsIdle
  /\ IdleBut("settings")
  /\ local_settings \in [Keys -> {"14", NoValue} \cup Values]
  /\ local_settings["default_days_to_show"] # NoValue
  /\ local_settings["llm_model"] # "14"
  /\ remote_settings \in [Keys -> {NoValue} \cup Values]
  /\ got_setting = NoArgs

settings_frame == <<primary, snapshot, remote, calls_vars, range, statements, syncing,
                    range_args, forecasting, parsing, extracting>>

\* save_setting(key, value, sync_to_supabase=sync)
save_setting_call(key, value, sync, out) ==
  /\ local_settings' = [local_settings EXCEPT ![key] = value]
  /\ remote_settings' = IF sync /\ supabase_client
                         THEN sync_setting(remote_settings, key, value, out)
                         ELSE remote_settings
  /\ UNCHANGED <<got_setting, supabase_client, settings_frame>>

\* get_setting(key, default)
get_setting_call(key, default) ==
  /\ UNCHANGED <<local_settings, remote_settings, supabase_client, settings_frame>>
  /\ got_setting' = [key |-> key, default |-> default,
                     local |-> local_settings[key], remote |-> remote_settings[key],
                     value |-> get_setting(local_settings, key, default),
                     after |-> local_settings'[key]]

NextSettings ==
  \/ \E key \in Keys, value \in Values, sync \in BOOLEAN, out \in {RequestsOk, RequestsFail} :
       save_setting_call(key, value, sync, out)
  \/ \E key \in Keys, default \in {NoValue, "14"} : get_setting_call(key, default)

SpecSettings == InitSettings /\ [][NextSettings]_vars

\* ----------------------------------------------------------------- claims

\* A record as Primary returns it: the events of each category, significant first.
Stored(data) ==
  Rec(data.date, data.url, data.error,
      [c \in CategorySet |-> SignificantFirst(data.events[c])])

Returned == pc = "done" /\ ~raised

\* C1: process_date(d) returns a record whose date is d and whose events map
\* has exactly the four category keys, each a list.
C1_ReturnsRecordOfDate ==
  Returned =>
    /\ result.kind = "rec"
    /\ result.date = date_str
    /\ DOMAIN result.events = CategorySet
    /\ \A c \in CategorySet : result.events[c] \in Seq({EvN, EvS})

\* C2: no exception leaves process_date, whatever the source, the model and
\* Remote do; the call ends with a record.
C2_NeverRaises ==
  /\ ~raised
  /\ pc = "done" => result.kind = "rec"

\* C2 witness: a call that ended with the source failing, the analysis
\* failing and the push failing.
C2_Witness ==
  /\ pc = "done"
  /\ path = "persisted"
  /\ sections.full_text = NoDataText
  /\ result.error # NoError
  /\ push = "failed"

\* C3 as claimed: at most max_retries + 1 analyses and at most max_retries + 1
\* completion requests in one call.
C3_OneRequestPerAttempt ==
  /\ normalizer_calls <= max_retries + 1
  /\ llm_requests <= max_retries + 1

\* C3 amended: at most max_retries + 1 analyses, each with at most
\* LLM_MAX_RETRIES completion requests.
C3_RequestsBounded ==
  /\ normalizer_calls <= max_retries + 1
  /\ llm_requests <= LLM_MAX_RETRIES * normalizer_calls

\* C3 witness: a call with the default max_retries that made three analyses
\* of three requests each.
C3_Witness ==
  /\ pc = "done"
  /\ max_retries = DEFAULT_MAX_RETRIES
  /\ normalizer_calls = DEFAULT_MAX_RETRIES + 1
  /\ llm_requests = LLM_MAX_RETRIES * (DEFAULT_MAX_RETRIES + 1)

\* C4: a call whose every analysis ended without events persists and returns
\* a record with four empty lists and an error.
C4_ExhaustedHasError ==
  (Returned /\ path = "persisted" /\ total_events(result.events) = 0) =>
    /\ result.error # NoError
    /\ primary[result.date] = Row(result)

\* C6: when the local lookup of process_date(d, force_refresh=false) finds a
\* record without events or with an error, Remote is asked for d (when there
\* is a client); the Remote record is returned, and is in Primary, if it has
\* events and no error, and otherwise the local record is returned and
\* Primary still holds it.
C6_RemoteFallback ==
  (Returned /\ ~force_refresh /\ local_data # NoRec /\ ~HasUsableEvents(local_data)) =>
    /\ supabase_client => remote_lookups = 1
    /\ IF remote_data # NoRec /\ HasUsableEvents(remote_data)
       THEN result = remote_data /\ load_data_from_db(primary, date_str) = remote_data
       ELSE result = local_data
            /\ load_data_from_db(primary, local_data.date) = Stored(local_data)

\* C6 witness: a local record with an error, replaced by the Remote record.
C6_Witness ==
  /\ Returned
  /\ ~force_refresh
  /\ local_data # NoRec
  /\ local_data.error # NoError
  /\ path = "remote"
  /\ result = remote_data

\* C7: a Remote record is written to Primary only for a date whose Primary
\* record is absent, has no events or has an error.
C7_RemoteOnlyFillsGaps ==
  [][(pc = "supabase" \/ range_pc = "probe") =>
       \A d \in Dates :
         (primary[d] # NoRec /\ HasUsableEvents(primary[d])) => primary'[d] = primary[d]]_vars

\* C10: when the push after the save fails or there is no client, the call
\* still returns the record, Primary holds it, and it is among the unsynced
\* records that sync_with_supabase reads.
C10_PushFailureKeepsWrite ==
  (pc = "done" /\ path = "persisted" /\ push \in {"failed", "no_client"}) =>
    /\ ~raised
    /\ result = analyzed_data
    /\ load_data_from_db(primary, result.date) = Stored(result)
    /\ ~primary[result.date].synced
    /\ result.date \in get_unsynced_data(primary)

\* C10 witness: a persisted call whose push was refused by Remote.
C10_Witness ==
  /\ pc = "done"
  /\ path = "persisted"
  /\ supabase_client
  /\ push = "failed"
  /\ total_events(result.events) > 0

\* The same date was asked for twice, force_refresh false, and both calls are back.
AskedTwice ==
  /\ Len(date_range) = 2
  /\ date_range[1] = date_range[2]
  /\ ~range_force
  /\ Len(results) = 2

\* C5 as claimed: two calls of process_date(d, force_refresh=false) in a row
\* return identical records, whatever the stores hold.
C5_TwiceIdentical == AskedTwice => results[1] = results[2]

\* C5 amended: the two calls return identical records when the first is
\* served from Primary with events and no error, or from Remote (which
\* imports the record to Primary).
C5_CacheHitIdempotent ==
  (AskedTwice /\ paths[1] \in {"cache_hit", "remote"}) =>
    /\ results[1] = results[2]
    /\ paths[2] = "cache_hit"

\* C5 witness: both calls served from a Primary row whose events were saved
\* in another order than they are read in.
C5_Witness ==
  /\ AskedTwice
  /\ paths[1] = "cache_hit"
  /\ paths[2] = "cache_hit"
  /\ results[1] = results[2]
  /\ results[1].events # primary[date_range[1]].events

\* The number of times e occurs in s.
Count(s, e) == Cardinality({i \in 1..Len(s) : s[i] = e})

\* s and t hold the same events the same number of times.
SameEvents(s, t) ==
  /\ Len(s) = Len(t)
  /\ \A i \in 1..Len(s) : Count(s, s[i]) = Count(t, s[i])

\* No event of s comes before a significant one without being significant.
SignificantLead(s) ==
  \A i, j \in 1..Len(s) : (i < j /\ is_significant(s[j])) => is_significant(s[i])

\* The last record saved for d among the first n commits.
LastFor(d, n) ==
  LET idx == {i \in 1..n : committed[i].date = d}
  IN IF idx = {} THEN NoRec ELSE committed[CHOOSE i \in idx : \A j \in idx : j <= i]

\* C8: a load_data_from_db(r.date) that follows the save of r, with no save
\* of the date committed in between, returns r's date, url and error and, per
\* category, r's events with the significant ones first; nothing of what the
\* date held before is returned.
C8_RoundTrip ==
  (reader.pc = "done" /\ reader.v1 = reader.v2 /\ LastFor(reader.d, reader.v2) # NoRec) =>
    LET r == LastFor(reader.d, reader.v2)
        got == reader.result
    IN /\ got # NoRec
       /\ got.date = r.date
       /\ got.url = r.url
       /\ got.error = r.error
       /\ \A c \in CategorySet :
            /\ SameEvents(got.events[c], r.events[c])
            /\ SignificantLead(got.events[c])

\* C8 witness: a record read back after it replaced a record with other
\* events, in another order than it was saved in.
C8_Witness ==
  /\ reader.pc = "done"
  /\ reader.v1 = reader.v2
  /\ reader.v2 >= 2
  /\ committed[reader.v2].date = reader.d
  /\ committed[reader.v2 - 1].date = reader.d
  /\ total_events(committed[reader.v2 - 1].events) > 0
  /\ reader.result # NoRec
  /\ reader.result.events # committed[reader.v2].events

\* C9: whatever the interleaving of the statements of saves and loads, a load
\* that finds the date returns the complete events of one committed save, and
\* the dates table holds one row for a date that was saved and never two.
C9_AtomicPut ==
  /\ (reader.pc = "done" /\ reader.result # NoRec) =>
       \E n \in 1..Len(committed) :
         /\ committed[n].date = reader.d
         /\ \A c \in CategorySet : SameEvents(reader.result.events[c], committed[n].events[c])
  /\ \A d \in Dates :
       /\ Cardinality({r \in tables.dates : r.date = d}) <= 1
       /\ LastFor(d, Len(committed)) # NoRec => Cardinality({r \in tables.dates : r.date = d}) = 1

\* C9 witness: a load that read the events while a save of the same date had
\* deleted or inserted some and not committed.
C9_Witness ==
  /\ reader.pc = "done"
  /\ reader.result # NoRec
  /\ reader.open
\* Remote holds for d a row with the error and the events of Primary's row.
Reflected(d) ==
  /\ remote[d] # NoRec
  /\ remote[d].error = primary[d].error
  /\ \A c \in CategorySet : SameEvents(remote[d].events[c], primary[d].events[c])

\* What sync_with_supabase counts and marks, by the value sync_date returned:
\* with a client every record that had synced = 0 is pushed, those for which
\* sync_date returned True are marked and counted, every other row is as it
\* was; without a client (0, 0) is returned and nothing changes.
SyncCounts ==
  sync_pc = "done" =>
    LET pending == get_unsynced_data(sync_before)
    IN IF supabase_client
       THEN /\ total_count = Cardinality(pending)
            /\ succeeded \subseteq pending
            /\ success_count = Cardinality(succeeded)
            /\ success_count <= total_count
            /\ \A d \in pending : primary[d] = [sync_before[d] EXCEPT !.synced = d \in succeeded]
            /\ \A d \in Dates \ pending : primary[d] = sync_before[d]
            /\ Cardinality(get_unsynced_data(primary)) = total_count - success_count
       ELSE /\ success_count = 0
            /\ total_count = 0
            /\ primary = sync_before

\* C11: sync_with_supabase pushes exactly the records that had synced = 0,
\* marks synced = 1 exactly those whose push to Remote succeeded, so that
\* Remote holds them, leaves the others pending, and returns
\* (success_count, total_count) with success_count <= total_count and
\* total_count - success_count records still pending.
C11_SyncPending ==
  /\ SyncCounts
  /\ (sync_pc = "done" /\ supabase_client) =>
       \A d \in get_unsynced_data(sync_before) : primary[d].synced => Reflected(d)

\* C12: a Primary row with synced = 1 has on Remote a row of its date with
\* the same error and the same events.
C12_SyncedIsReflected ==
  \A d \in Dates : (primary[d] # NoRec /\ primary[d].synced) => Reflected(d)
\* C13: whatever start_date, end_date and days are, the dates process_date_range
\* hands to process_date are ascending and one day apart, none is after today
\* and none is earlier than today - days; for start = today - 400,
\* end = today + 10 and days = 30 they go from today - 30 to today.
C13_RangeClamped ==
  range_pc = "ready" =>
    /\ \A i \in 1..Len(date_range) :
         /\ date_range[i] <= Today
         /\ date_range[i] >= Today - range_args.days
    /\ \A i \in 1..(Len(date_range) - 1) : date_range[i + 1] = date_range[i] + 1
    /\ (/\ range_args.start_date = Today - 400
        /\ range_args.end_date = Today + 10
        /\ range_args.days = DEFAULT_DAYS) =>
          /\ Len(date_range) = DEFAULT_DAYS + 1
          /\ date_range[1] = Today - DEFAULT_DAYS
          /\ date_range[Len(date_range)] = Today

C13_Witness ==
  /\ range_pc = "ready"
  /\ range_args = [start_date |-> Today - 400, end_date |-> Today + 10,
                   days |-> DEFAULT_DAYS, tod |-> 1]
  /\ date_range[1] = Today - DEFAULT_DAYS
  /\ date_range[Len(date_range)] = Today
\* The list process_date_range returns has one entry per date of date_range.
RangeComplete ==
  range_pc = "done" =>
    /\ Len(results) = Len(date_range)
    /\ \A i \in 1..Len(results) : results[i] # NoRec

\* C14: process_date_range returns one record per date of date_range, in the
\* order of the dates: the i-th result is a record of the i-th date, however
\* the date was answered.
C14_OnePerDate ==
  /\ RangeComplete
  /\ range_pc = "done" => \A i \in 1..Len(results) : results[i].date = date_range[i]
\* The events of a call's data_list whose predicted_arrival is the date f.
ArrivingOn(data_list, f) ==
  SelectSeq(Scan(data_list, 1), LAMBDA x : x.event.predicted_arrival = f)

\* C15: when exactly one event of the records given has a predicted_arrival
\* that is a future date f of the date range (f = D + 5 for a record of day D),
\* generate_forecast_data returns for f a record keyed and dated f with
\* is_forecast set and exactly one event, which has is_forecast set, the
\* record's date D as its date and f as its predicted_arrival.
C15_ForecastProjected ==
  \A k \in 1..Len(forecast_log) :
    \A f \in FutureDates(forecast_log[k].date_range) :
      LET arriving == ArrivingOn(forecast_log[k].data_list, f)
          fd == forecast_log[k].result
      IN Len(arriving) = 1 =>
           /\ f \in DOMAIN fd.at
           /\ fd.at[f].date = f
           /\ fd.at[f].is_forecast
           /\ total_events(fd.at[f].events) = 1
           /\ Len(fd.at[f].events[arriving[1].category]) = 1
           /\ LET e == fd.at[f].events[arriving[1].category][1]
              IN /\ e.is_forecast
                 /\ e.date = arriving[1].date
                 /\ e.predicted_arrival = f
                 /\ e.tone = arriving[1].event.tone

C15_Witness ==
  \E k \in 1..Len(forecast_log) :
    \E f \in FutureDates(forecast_log[k].date_range) :
      LET arriving == ArrivingOn(forecast_log[k].data_list, f)
      IN /\ Len(arriving) = 1
         /\ f = arriving[1].date + 5
         /\ f \in DOMAIN forecast_log[k].result.at
         /\ total_events(forecast_log[k].result.at[f].events) = 1

IsForecast(r) ==
  \/ "is_forecast" \in DOMAIN r /\ r.is_forecast
  \/ \E c \in CategorySet : \E i \in 1..Len(r.events[c]) :
       "is_forecast" \in DOMAIN r.events[c][i] /\ r.events[c][i].is_forecast

\* generate_forecast_data and prepare_timeline_data write to no store.
ForecastLeavesStores ==
  [][forecast_log' # forecast_log => UNCHANGED stores]_vars

\* C17: Primary, Snapshot and Remote hold no forecast record and no record
\* of a date after today, whatever was done before.
C17_NothingAheadStored ==
  \A d \in DOMAIN primary :
    /\ primary[d] # NoRec => ~IsForecast(primary[d]) /\ d <= Today /\ primary[d].date <= Today
    /\ snapshot[d] # NoRec => ~IsForecast(snapshot[d]) /\ d <= Today /\ snapshot[d].date <= Today
    /\ remote[d] # NoRec => ~IsForecast(remote[d]) /\ d <= Today /\ remote[d].date <= Today
\* The text parse_llm_response tries to parse: the block found and sanitized.
JsonStr == sanitize_json_response(FindObject(response, ExtractBlock(response)))

\* The reply was written from a bundle with one closing brace left out.
OneBraceMissing ==
  /\ response_origin # NoArgs
  /\ response_origin.kind = "bundle"
  /\ response_origin.damage \in {"last_brace", "event_brace", "fenced_last_brace"}

\* For such a reply the second attempt does not parse: the text gets a quote
\* after its end.
RepairNeverParses == OneBraceMissing => ~Repair(JsonStr).ok

\* C18: a reply that is a valid bundle but for one missing closing brace is
\* parsed to a record without error that holds, in each category, the events
\* of the reply.
C18_BraceRepaired ==
  (OneBraceMissing /\ parsed # NoRec) =>
    /\ parsed.error = NoError
    /\ \A c \in CategorySet :
         parsed.events[c] = Get(Get(response_origin.bundle, <<"events">>), <<c>>)

\* C19: a reply that is not empty and holds nothing of JSON (no brace, no
\* bracket, no quote, no colon) is parsed to a record with an error and four
\* empty lists.
C19_NothingParses ==
  (/\ parsed # NoRec
   /\ response # NoText
   /\ \A i \in 1..Len(response) : response[i] \notin Marks) =>
    /\ parsed.error # NoError
    /\ \A c \in CategorySet : parsed.events[c] = Arr(<<>>)

\* The text holds the keyword as it is written.
Contains(text, keyword) ==
  \E i \in 1..Len(text) :
    /\ i + Len(keyword) - 1 <= Len(text)
    /\ \A j \in 1..Len(keyword) : text[i + j - 1] = keyword[j]

OtherKeywords == CmeKeywords \o SunspotKeywords \o CoronalHoleKeywords

OnlyFlareText ==
  /\ keyword_sections # NoRec
  /\ Contains(page_text, M4Flare)
  /\ \A k \in 1..Len(OtherKeywords) : ~Contains(page_text, OtherKeywords[k])

\* A text that holds "M4 solar flare" has a flare snippet and a sunspot
\* snippet: "AR", with the case folded, is found in "solar" and in "flare".
SolarHoldsAR ==
  (keyword_sections # NoRec /\ Contains(page_text, M4Flare)) =>
    /\ keyword_sections.flares # <<>>
    /\ keyword_sections.sunspot # <<>>

\* C20: for a raw text that contains "M4 solar flare" and no keyword of
\* another category, the flares snippet list is not empty and the cme,
\* sunspot and coronal_holes snippet lists are empty.
C20_OnlyFlareSnippets ==
  OnlyFlareText =>
    /\ keyword_sections.flares # <<>>
    /\ keyword_sections.cme = <<>>
    /\ keyword_sections.sunspot = <<>>
    /\ keyword_sections.coronal_holes = <<>>

\* C21: get_setting(key, default) returns Primary's value of the key; when
\* Primary has no row for the key and Remote has one, Remote's value is
\* returned and is in Primary afterwards; default is returned only when
\* neither holds the key.
C21_SettingFromRemote ==
  (got_setting # NoArgs /\ supabase_client) =>
    IF got_setting.local # NoValue THEN got_setting.value = got_setting.local
    ELSE IF got_setting.remote # NoValue
         THEN got_setting.value = got_setting.remote /\ got_setting.after = got_setting.remote
         ELSE got_setting.value = got_setting.default

\* What get_setting does: Primary's value or default, and no row is written.
SettingFromPrimary ==
  got_setting # NoArgs =>
    /\ got_setting.value = IF got_setting.local # NoValue THEN got_setting.local
                           ELSE got_setting.default
    /\ got_setting.after = got_setting.local

\* Primary holds for d a row with at least one event and no error.
UsableRow(d) ==
  /\ primary[d] # NoRec
  /\ total_events(primary[d].events) > 0
  /\ primary[d].error = NoError

\* C22: when Primary holds for d a record with events and no error,
\* process_date(d, force_refresh=false) returns that record at once, with no
\* scrape, no analysis, no completion request and no Remote lookup, and
\* Primary (rows and synced flags), the JSON files and Remote are as before,
\* also when the caller has the result.
C22_CacheHitTerminal ==
  [][/\ (calls' = calls + 1 /\ ~force_refresh' /\ UsableRow(date_str')) =>
          /\ pc' = "done"
          /\ ~raised'
          /\ path' = "cache_hit"
          /\ result' = Stored(primary[date_str'])
          /\ remote_lookups' = 0
          /\ normalizer_calls' = 0
          /\ llm_requests' = 0
          /\ UNCHANGED stores
     /\ (pc = "done" /\ path = "cache_hit") => (pc' = "idle" /\ UNCHANGED stores)]_vars

\* C22 witness: a cache hit on the record that the call before it analyzed
\* and saved.
C22_Witness ==
  /\ pc = "done"
  /\ path = "cache_hit"
  /\ Len(paths) = 1
  /\ paths[1] = "persisted"
  /\ result = Stored(results[1])

\* The running call scraped nothing for its date and works on the minimal
\* structure.
SourceUnavailable == sections.full_text = NoDataText

\* C23: when scrape_spaceweather returns nothing for d, process_date goes on
\* with the minimal structure, no exception leaves it, no completion request
\* is sent for that text, and the call ends through the save with a record
\* of d that has no events and an error, which Primary then holds.
C23_UnavailableDegrades ==
  SourceUnavailable =>
    /\ ~raised
    /\ sections.date = date_str
    /\ llm_requests = 0
    /\ pc \in {"llm", "persist", "sync", "done"}
    /\ pc \in {"persist", "sync"} =>
         /\ analyzed_data.date = date_str
         /\ total_events(analyzed_data.events) = 0
         /\ analyzed_data.error # NoError
    /\ pc = "done" =>
         /\ path = "persisted"
         /\ result.kind = "rec"
         /\ result.date = date_str
         /\ total_events(result.events) = 0
         /\ result.error # NoError
         /\ primary[date_str] = Row(result)

\* C23 witness: a call that scraped nothing, made every analysis its
\* max_retries allow, saved the record and pushed it.
C23_Witness ==
  /\ SourceUnavailable
  /\ pc = "done"
  /\ max_retries = MaxRetriesArg
  /\ normalizer_calls = MaxRetriesArg + 1
  /\ push = "synced"

\* C24: when process_date(d) returns through the save, Primary holds a row
\* for d with the error and the events of the record returned, whatever date
\* the reply of the model stated.
C24_PersistedUnderDate ==
  (pc = "done" /\ path = "persisted") =>
    /\ primary[date_str] # NoRec
    /\ primary[date_str].error = result.error
    /\ \A c \in CategorySet : SameEvents(primary[date_str].events[c], result.events[c])

\* What the save does: the row is written under the date the record states,
\* the file under the date asked for.
PersistedUnderOwnDate ==
  (pc = "done" /\ path = "persisted") =>
    /\ primary[result.date] = Row(result)
    /\ snapshot[date_str] = result

\* The JSON file of d holds the error and the events of Primary's row of d.
Mirrored(d) ==
  /\ snapshot[d] # NoRec
  /\ snapshot[d].error = primary[d].error
  /\ \A c \in CategorySet : SameEvents(snapshot[d].events[c], primary[d].events[c])

\* C25: after any calls of process_date and process_date_range, imports from
\* Remote included, every date with a row in Primary has a JSON file with
\* the same error and events.
C25_SnapshotMirrors ==
  (pc \in {"idle", "done"} /\ range_pc # "probe") =>
    \A d \in Dates : primary[d] # NoRec => Mirrored(d)

\* C26: a process_date(d) that finds no row for d in Primary and a JSON file
\* for d saves the file's record to Primary and goes on with it as the local
\* record (returning it when it has events and no error and force_refresh is
\* false); one that finds a row for d in Primary goes on with that row and
\* neither reads nor imports the file; no lookup changes a file.
C26_PrimaryBeforeSnapshot ==
  [][calls' = calls + 1 =>
       LET d == date_str'
       IN /\ snapshot' = snapshot
          /\ IF primary[d] # NoRec
             THEN /\ local_data' = Stored(primary[d])
                  /\ existing_data' = Stored(primary[d])
                  /\ primary' = primary
                  /\ pc' = "done" => result' = Stored(primary[d])
             ELSE IF snapshot[d] # NoRec
                  THEN /\ local_data' = snapshot[d]
                       /\ existing_data' = snapshot[d]
                       /\ primary' = [primary EXCEPT ![snapshot[d].date] = Row(snapshot[d])]
                       /\ (~force_refresh' /\ HasUsableEvents(snapshot[d])) =>
                            (pc' = "done" /\ result' = snapshot[d])
                  ELSE local_data' = NoRec /\ primary' = primary]_vars

\* C26 witness: a call served from the JSON file of its date, whose record
\* Primary now holds.
C26_Witness ==
  /\ pc = "done"
  /\ path = "json_hit"
  /\ result = snapshot[date_str]
  /\ primary[date_str] = Row(result)

\* The row of d after the step has events and no error.
UsableRowNext(d) ==
  /\ primary'[d] # NoRec
  /\ total_events(primary'[d].events) > 0
  /\ primary'[d].error = NoError

NothingPending == get_unsynced_data(primary) = {}

\* A call of sync_with_supabase that starts with a client takes up every row
\* that has synced = 0, those left by a failed push of an earlier call too.
PendingTakenUp ==
  (sync_pc = "none" /\ sync_pc' = "push") =>
    /\ Len(unsynced_data') = Cardinality(get_unsynced_data(primary))
    /\ \A d \in get_unsynced_data(primary) :
         \E i \in 1..Len(unsynced_data') :
           unsynced_data'[i] = [id |-> d, data |-> Stored(primary[d])]

\* C28: when from some point on every request to Remote is answered, and
\* sync_with_supabase is called again and again while nothing else writes
\* to Primary, then eventually no row of Primary has synced = 0, and stays
\* so; each call takes up the rows a failed push of an earlier call left.
C28_EventuallySynced ==
  /\ <>remote_reachable => <>[]NothingPending
  /\ [][PendingTakenUp]_vars

\* C28 witness: Remote is reachable for good, a call has pushed two pending
\* records and none is pending.
C28_Witness ==
  /\ remote_reachable
  /\ sync_pc = "done"
  /\ total_count = 2
  /\ success_count = 2
  /\ NothingPending

\* C29: a Primary row that process_date has just pushed to Remote with
\* success, or has just imported from Remote, has synced = 1, so that
\* sync_with_supabase does not take it up.
C29_SyncedWhenEqual ==
  (pc = "done" /\ ((path = "persisted" /\ push = "synced") \/ path = "remote")) =>
    /\ primary[result.date].synced
    /\ result.date \notin get_unsynced_data(primary)

\* What process_date leaves: every row it wrote has synced = 0.
WrittenUnsynced ==
  (pc = "done" /\ path \in {"persisted", "remote", "json_hit"}) =>
    ~primary[result.date].synced

\* C30: a row that was saved again after sync_with_supabase read the
\* unsynced records is not marked by that call: when the call returns, every
\* row it marked holds what the call read and pushed.
C30_NewerStaysPending ==
  sync_pc = "done" =>
    \A d \in succeeded :
      primary[d].synced => [primary[d] EXCEPT !.synced = FALSE] = sync_before[d]

\* C31: a forced refresh never replaces stored events by an empty record:
\* when process_date with force_refresh found a record with events for the
\* date and has saved its analysis, the row of the date still has events.
C31_RefreshKeepsEvents ==
  (pc = "done" /\ path = "persisted" /\ force_refresh
     /\ local_data # NoRec /\ total_events(local_data.events) > 0) =>
    /\ primary[date_str] # NoRec
    /\ total_events(primary[date_str].events) > 0

\* What the code keeps: the row of the date is never removed.
RefreshKeepsRow ==
  (pc = "done" /\ path = "persisted" /\ force_refresh /\ local_data # NoRec) =>
    primary[date_str] # NoRec

\* Every step of a loop of a process_date call returns from the loop or
\* advances its counter: retry_count or retries for an analysis, retry_count
\* for a Remote request.
LoopAdvances ==
  /\ (pc = "llm" /\ pc' = "llm") => (retry_count' > retry_count \/ retries' > retries)
  /\ (request.pc = "try" /\ request'.pc = "try") => request'.retry_count > request.retry_count

\* The loops of a running process_date call are bounded: at most
\* max_retries + 1 analyses, at most three completion requests in each, at
\* most three attempts of a Remote request.
LoopsBounded ==
  pc # "idle" =>
    /\ retries <= max_retries + 1
    /\ normalizer_calls <= max_retries + 1
    /\ retry_count < LLM_MAX_RETRIES
    /\ llm_requests <= LLM_MAX_RETRIES * normalizer_calls
    /\ request.retry_count <= REQUEST_MAX_RETRIES
    /\ request.attempts <= REQUEST_MAX_RETRIES

\* C32: every process_date call terminates when each collaborator call
\* returns: a call that has started reaches its return, its loops stay within
\* their bounds, and each iteration returns or advances its counter.
C32_Terminates ==
  /\ (pc # "idle") ~> (pc = "done")
  /\ []LoopsBounded
  /\ [][LoopAdvances]_vars

\* A call with the largest max_retries has returned after running every
\* analysis with three completion requests each, and the last Remote request
\* of its push gave up after three attempts.
C32_Witness ==
  /\ pc = "done"
  /\ path = "persisted"
  /\ max_retries = MaxRetriesArg
  /\ normalizer_calls = MaxRetriesArg + 1
  /\ llm_requests = LLM_MAX_RETRIES * normalizer_calls
  /\ request.stage = <<calls, "sync">>
  /\ request.attempts = REQUEST_MAX_RETRIES
  /\ ~request.out[request.field]

\* The events of a data_list as (record, category, index), and those of them
\* whose predicted_arrival is a date of the window after today.
InputEvents(data_list) ==
  UNION {{<<rc[1], rc[2], i>> : i \in 1..Len(data_list[rc[1]].events[rc[2]])} :
           rc \in {x \in (1..Len(data_list)) \X CategorySet : data_list[x[1]] # NoRec}}

ArrivesInWindow(data_list, window, x) ==
  LET p == data_list[x[1]].events[x[2]][x[3]].predicted_arrival
  IN p # NoDate /\ p > Today /\ \E i \in 1..Len(window) : window[i] = p

\* The events of the records generate_forecast_data returned, as (key, category, index).
ForecastEvents(fd) ==
  UNION {{<<fc[1], fc[2], i>> : i \in 1..Len(fd.at[fc[1]].events[fc[2]])} :
           fc \in (DOMAIN fd.at) \X CategorySet}

\* C33: every record generate_forecast_data returns is keyed and dated by a
\* date of the window strictly after today and marked is_forecast; each of
\* its events has that key as predicted_arrival, is_forecast set, and the
\* category, the tone and the record date of an event given whose
\* predicted_arrival is that key; and the events returned are as many as the
\* events given whose predicted_arrival is a future date of the window.
C33_ForecastsOfWindow ==
  \A k \in 1..Len(forecast_log) :
    LET fd == forecast_log[k].result
        data_list == forecast_log[k].data_list
        window == forecast_log[k].date_range
        arriving == {x \in InputEvents(data_list) : ArrivesInWindow(data_list, window, x)}
    IN /\ \A f \in DOMAIN fd.at :
            /\ f > Today
            /\ \E i \in 1..Len(window) : window[i] = f
            /\ fd.at[f].date = f
            /\ fd.at[f].is_forecast
       /\ \A y \in ForecastEvents(fd) :
            LET ev == fd.at[y[1]].events[y[2]][y[3]]
            IN /\ ev.predicted_arrival = y[1]
               /\ ev.is_forecast
               /\ \E x \in arriving :
                    LET data == data_list[x[1]]
                        orig == data.events[x[2]][x[3]]
                    IN /\ x[2] = y[2]
                       /\ orig.predicted_arrival = y[1]
                       /\ orig.tone = ev.tone
                       /\ data.date = ev.date
       /\ Cardinality(ForecastEvents(fd)) = Cardinality(arriving)

\* A call was given an event that arrives today and one that arrives on a
\* later date of the window, and returned a record for the later date only.
C33_Witness ==
  \E k \in 1..Len(forecast_log) :
    LET fd == forecast_log[k].result
        data_list == forecast_log[k].data_list
        window == forecast_log[k].date_range
        arrivals == {data_list[x[1]].events[x[2]][x[3]].predicted_arrival :
                       x \in InputEvents(data_list)}
    IN /\ Cardinality(DOMAIN fd.at) = 1
       /\ Today \in arrivals
       /\ \E i \in 1..Len(window) : window[i] = Today
       /\ Cardinality(ForecastEvents(fd)) = 1

\* C34: for every reply that parses, the record carries the date and the url
\* of the sections, whatever the reply states, and has the four categories.
C34_Canonical ==
  (parsed # NoRec /\ parsed.error = NoError) =>
    /\ parsed.date = Str(<<ParseSections.date>>)
    /\ parsed.url = ParseSections.url
    /\ DOMAIN parsed.events = CategorySet

\* What the code ensures: the url of the sections and the four categories;
\* the date of the sections only when the reply states none.
UrlAndCategoriesCanonical ==
  (parsed # NoRec /\ parsed.error = NoError) =>
    /\ parsed.url = ParseSections.url
    /\ DOMAIN parsed.events = CategorySet
    /\ (response_origin.kind = "bundle"
          /\ response_origin.damage \in {"intact", "fenced", "prefixed"}
          /\ ~Has(response_origin.bundle, <<"date">>)) =>
         parsed.date = Str(<<ParseSections.date>>)

\* A reply that is some words followed by a well-formed bundle.
WordsThenBundle ==
  /\ response_origin # NoArgs
  /\ response_origin.kind = "bundle"
  /\ response_origin.damage = "prefixed"

\* C35: when the reply does not start with an opening brace and holds a
\* well-formed object with nested objects, the span taken reaches the last
\* closing brace: the whole object is parsed and every event is recovered.
C35_WholeObjectTaken ==
  (WordsThenBundle /\ parsed # NoRec) =>
    /\ parsed.error = NoError
    /\ \A c \in CategorySet :
         parsed.events[c] = Get(Get(response_origin.bundle, <<"events">>), <<c>>)

\* What the code takes: the span ends at the first closing brace, which is
\* not the last one, and what is taken does not parse.
FirstBraceTaken ==
  WordsThenBundle =>
    LET json_str == FindObject(response, ExtractBlock(response))
    IN /\ Len(json_str) < Len(Dump(response_origin.bundle))
       /\ \A i \in 1..(Len(json_str) - 1) : json_str[i] # "}"
       /\ ~json_loads(sanitize_json_response(json_str)).ok

\* C36: on absent scraped data extract_spaceweather_sections returns a
\* bundle, not None: four empty snippet lists and the no-data text as full_text.
C36_BundleWhenAbsent ==
  (page_text = NoScraped /\ keyword_sections # NoRec) =>
    /\ keyword_sections # ReturnedNone
    /\ keyword_sections.cme = <<>>
    /\ keyword_sections.sunspot = <<>>
    /\ keyword_sections.flares = <<>>
    /\ keyword_sections.coronal_holes = <<>>
    /\ keyword_sections.full_text = NoDataText

\* What the code returns then, and for every text of a page a bundle.
NoneWhenAbsent ==
  keyword_sections # NoRec => (keyword_sections = ReturnedNone <=> page_text = NoScraped)

\* C37: a failed write to Primary is not swallowed: when process_date
\* returns the record it analysed without raising, Primary holds that record
\* under the record's date.
C37_WriteFailurePropagates ==
  (pc = "done" /\ path = "persisted" /\ ~raised) =>
    load_data_from_db(primary, result.date) = Stored(result)

\* What the code keeps: a failed write to Primary changes no row, and a
\* failed write of the JSON file leaves the call by an exception.
FailedPutKeepsRows ==
  [][pc = "persist" =>
       /\ (pc' = "done" => raised')
       /\ \A d \in Dates :
            primary'[d] \in {primary[d], save_data_to_db(primary, analyzed_data)[d]}]_vars

\* The dates calculate_date_range returned are ascending, one day apart.
Consecutive == \A i \in 1..(Len(date_range) - 1) : date_range[i + 1] = date_range[i] + 1

\* C38: for every positive days_to_show, with or without a centre date,
\* calculate_date_range returns exactly days_to_show consecutive ascending
\* dates, the last no later than today + forecast_days.
C38_ExactlyDaysToShow ==
  (range_pc = "calculated" /\ range_args.days_to_show > 0) =>
    /\ Len(date_range) = range_args.days_to_show
    /\ Consecutive
    /\ date_range[Len(date_range)] <= Today + range_args.forecast_days

\* What the code returns: consecutive dates up to today + forecast_days at
\* the latest; days_to_show of them without a centre date or when the end is
\* clamped, and with a centre date otherwise 2 * (days_to_show // 2) + 1,
\* one more than days_to_show when it is even.
DaysOrOneMore ==
  (range_pc = "calculated" /\ range_args.days_to_show > 0) =>
    /\ Consecutive
    /\ date_range[Len(date_range)] <= Today + range_args.forecast_days
    /\ Len(date_range) \in {range_args.days_to_show, range_args.days_to_show + 1}
    /\ range_args.admin_selected_date \in {NoDate, BadDate} =>
         Len(date_range) = range_args.days_to_show
    /\ range_args.days_to_show % 2 = 1 => Len(date_range) = range_args.days_to_show

====
